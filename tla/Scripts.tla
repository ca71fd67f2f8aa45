-------------------------------- MODULE Scripts --------------------------------
(***************************************************************************)
(* Locking and unlocking scripts: scripts.py, and their use by bond.py,    *)
(* signing.py, lifecycle.py, routing.py and verify.py.                     *)
(*                                                                         *)
(* A script is a sequence of tokens, opcodes and runs of pushes, run by    *)
(* the interpreter of the bitcoinx library (external), here a stack        *)
(* machine. A stack item is [kind, val]: number bytes, a key, a signature, *)
(* a preimage or a hash.  A signature names its key and the transaction it *)
(* was made for, as SIGHASH_ALL commits to every input and output.         *)
(*                                                                         *)
(* One output is to be spent: signatures are collected one by one, for the *)
(* transaction that is to spend it or for another, until the unlocking     *)
(* script of the path has as many as it is given.  A participant's key may *)
(* be replaced meanwhile (keymgmt.py).                                     *)
(***************************************************************************)
EXTENDS Bytes

CONSTANTS Sizes,       \* numbers of participants
          Mixed        \* up to this size every order of signers is tried

ASSUME ScriptsAssumption == Sizes \subseteq Nat \ {0, 1} /\ Mixed \in Nat

VARIABLES path,        \* which branch of which output is to be spent
          size,        \* participants, whose keys were 1 .. size when the
                       \* output was made
          owner,       \* the bond's owner, the hop's payee, the payout's key
          preimage,    \* what the claim reveals: 1 is the preimage of the image
          book,        \* KeyBook.keys: the key each participant holds now
          sigs         \* signatures collected, as <<key, transaction>>

scriptVars == <<path, size, owner, preimage, book, sigs>>

Paths == {"funding", "bondReturn", "bondForfeit", "hopClaim", "hopReturn", "p2pkh"}

-----------------------------------------------------------------------------
(* Numbers. *)

OpN(n) == IF n = 0 THEN << >> ELSE <<n>>

\* Bytes are shifted out until nothing is left.
Magnitude(n) ==
    LET a == IF n < 0 THEN -n ELSE n
        w == CHOOSE w \in 0 .. a : /\ Quotients(a, 256, a)[w] = 0
                                   /\ \A v \in 0 .. w - 1 : Quotients(a, 256, a)[v] # 0
    IN ToDigits(a, 256, w)

\* _encode_script_num: the top bit of the last byte is the sign.
EncodeScriptNum(n) ==
    LET m == Magnitude(n) IN
    IF n = 0 THEN << >>
    ELSE IF Last(m) >= 128 THEN Append(m, IF n < 0 THEN 128 ELSE 0)
    ELSE IF n < 0 THEN [m EXCEPT ![Len(m)] = @ + 128]
    ELSE m

\* The interpreter's reading of such bytes.
DecodeScriptNum(s) ==
    IF s = << >> THEN 0
    ELSE LET low == [s EXCEPT ![Len(s)] = @ % 128]
             a == FromDigits(low, 256)
         IN IF Last(s) >= 128 THEN -a ELSE a

-----------------------------------------------------------------------------
(* Tokens and templates. *)

It(kind, val) == [kind |-> kind, val |-> val]
Op(name) == [op |-> name, items |-> << >>]
Pushes(items) == [op |-> "PUSH", items |-> items]
Push(item) == Pushes(<<item>>)
PushNum(bytes) == Push(It("num", bytes))
PushKeys(ks) == Pushes([i \in 1 .. Len(ks) |-> It("key", <<ks[i]>>)])
PushKey(k) == PushKeys(<<k>>)
PushSigs(ss) == Pushes([i \in 1 .. Len(ss) |-> It("sig", ss[i])])
PushSig(s) == PushSigs(<<s>>)
PushPre(x) == Push(It("pre", <<x>>))

Codes == [num |-> 0, key |-> 1, sig |-> 2, pre |-> 3, hash |-> 4]
Hash160(item) == It("hash", <<Codes[item.kind]>> \o item.val)

NoSignByte(n) == PushNum(Magnitude(n))
PushCount(n) == PushNum(IF n \in 0 .. 16 THEN OpN(n) ELSE EncodeScriptNum(n))

Multisig(keys) ==
    << PushCount(Len(keys)), PushKeys(keys), PushCount(Len(keys)), Op("OP_CHECKMULTISIG") >>

ChannelFundingScript(keys) == Multisig(keys)
ChannelFundingUnlock(ss) == << PushNum(OpN(0)), PushSigs(ss) >>

HopScript(image, payee, payer) ==
    << Op("OP_IF"), Op("OP_HASH160"), Push(image), Op("OP_EQUALVERIFY"),
       PushKey(payee), Op("OP_CHECKSIG"),
       Op("OP_ELSE"), PushKey(payer), Op("OP_CHECKSIG"), Op("OP_ENDIF") >>
HopClaimUnlock(s, x) == << PushSig(s), PushPre(x), PushNum(OpN(1)) >>
HopReturnUnlock(s) == << PushSig(s), PushNum(OpN(0)) >>

P2pkhScript(k) ==
    << Op("OP_DUP"), Op("OP_HASH160"), Push(Hash160(It("key", <<k>>))),
       Op("OP_EQUALVERIFY"), Op("OP_CHECKSIG") >>
P2pkhUnlock(s, k) == << PushSig(s), PushKey(k) >>

BondScript(k, counterparties) ==
    << Op("OP_IF"), PushKey(k), Op("OP_CHECKSIG"), Op("OP_ELSE") >>
    \o Multisig(counterparties) \o << Op("OP_ENDIF") >>
BondReturnUnlock(s) == << PushSig(s), PushNum(OpN(1)) >>
BondForfeitUnlock(ss) == << PushNum(OpN(0)), PushSigs(ss), PushNum(OpN(0)) >>

-----------------------------------------------------------------------------
(***************************************************************************)
(* The interpreter, for the opcodes above, with post-Genesis limits: no    *)
(* limit on the number of keys, nothing asked of items left on the stack.  *)
(* The top of the stack is its last element.                               *)
(***************************************************************************)
Machine(stack) == [stack |-> stack, on |-> TRUE, ok |-> TRUE]
Below(m, k) == SubSeq(m.stack, 1, Len(m.stack) - k)
Top(m, k) == m.stack[Len(m.stack) - k]
Truthy(item) == item.kind # "num" \/ \E i \in DOMAIN item.val : item.val[i] # 0
Bool(b) == It("num", OpN(IF b THEN 1 ELSE 0))
Needs(m, k, next) == IF Len(m.stack) < k THEN [m EXCEPT !.ok = FALSE] ELSE next

CheckSig(s, k) == k.kind = "key" /\ s = It("sig", <<k.val[1], 1>>)

\* Every signature matches a key, in the order of the keys.
Matches(ss, keys) ==
    LET scan == FoldLeft(LAMBDA i, k : IF i <= Len(ss) /\ CheckSig(ss[i], k) THEN i + 1 ELSE i,
                         1, keys)
    IN scan = Len(ss) + 1

CheckMultisig(m) ==
    LET n == DecodeScriptNum(Top(m, 0).val)
        k == DecodeScriptNum(Top(m, n + 1).val)
        keys == SubSeq(m.stack, Len(m.stack) - n, Len(m.stack) - 1)
        ss == SubSeq(m.stack, Len(m.stack) - n - 1 - k, Len(m.stack) - n - 2)
    IN IF \/ Len(m.stack) < 1 \/ Top(m, 0).kind # "num" \/ n < 0
          \/ Len(m.stack) < n + 2 \/ Top(m, n + 1).kind # "num" \/ k \notin 0 .. n
          \/ Len(m.stack) < n + k + 3
       THEN [m EXCEPT !.ok = FALSE]
       ELSE [m EXCEPT !.stack = Append(Below(m, n + k + 3), Bool(Matches(ss, keys)))]

Step(m, t) ==
    CASE ~m.ok -> m
      [] m.ok /\ t.op = "OP_ELSE" -> [m EXCEPT !.on = ~@]
      [] m.ok /\ t.op = "OP_ENDIF" -> [m EXCEPT !.on = TRUE]
      [] m.ok /\ ~m.on /\ t.op \notin {"OP_ELSE", "OP_ENDIF"} -> m
      [] m.ok /\ m.on /\ t.op = "PUSH" -> [m EXCEPT !.stack = @ \o t.items]
      [] m.ok /\ m.on /\ t.op = "OP_DUP" ->
           Needs(m, 1, [m EXCEPT !.stack = Append(@, Top(m, 0))])
      [] m.ok /\ m.on /\ t.op = "OP_IF" ->
           Needs(m, 1, [m EXCEPT !.stack = Below(m, 1), !.on = Truthy(Top(m, 0))])
      [] m.ok /\ m.on /\ t.op = "OP_HASH160" ->
           Needs(m, 1, [m EXCEPT !.stack = Append(Below(m, 1), Hash160(Top(m, 0)))])
      [] m.ok /\ m.on /\ t.op = "OP_EQUALVERIFY" ->
           Needs(m, 2, [m EXCEPT !.stack = Below(m, 2), !.ok = (Top(m, 0) = Top(m, 1))])
      [] m.ok /\ m.on /\ t.op = "OP_CHECKSIG" ->
           Needs(m, 2, [m EXCEPT !.stack = Append(Below(m, 2), Bool(CheckSig(Top(m, 1), Top(m, 0))))])
      [] m.ok /\ m.on /\ t.op = "OP_CHECKMULTISIG" -> CheckMultisig(m)

Verifies(unlock, lock) ==
    LET end == FoldLeft(Step, Machine(<< >>), unlock \o lock)
    IN end.ok /\ end.stack # << >> /\ Truthy(Last(end.stack))

-----------------------------------------------------------------------------
(* The output and its spend. *)

AllKeys == [i \in 1 .. size |-> i]
Counterparties == RemoveAt(AllKeys, owner)
Payer == (owner % size) + 1

LockingScript ==
    CASE path = "funding" -> ChannelFundingScript(AllKeys)
      [] path \in {"bondReturn", "bondForfeit"} -> BondScript(owner, Counterparties)
      [] path \in {"hopClaim", "hopReturn"} -> HopScript(Hash160(It("pre", <<1>>)), owner, Payer)
      [] path = "p2pkh" -> P2pkhScript(owner)

UnlockingScript ==
    CASE path = "funding"     -> ChannelFundingUnlock(sigs)
      [] path = "bondReturn"  -> BondReturnUnlock(sigs[1])
      [] path = "bondForfeit" -> BondForfeitUnlock(sigs)
      [] path = "hopClaim"    -> HopClaimUnlock(sigs[1], preimage)
      [] path = "hopReturn"   -> HopReturnUnlock(sigs[1])
      [] path = "p2pkh"       -> P2pkhUnlock(sigs[1], sigs[1][1])

\* The participants whose signatures the channel, the bond or the hop collects
\* for the path, in order.
Signers ==
    CASE path = "funding"     -> AllKeys
      [] path = "bondForfeit" -> Counterparties
      [] path = "hopReturn"   -> <<Payer>>
      [] OTHER                -> <<owner>>

ScriptsInit ==
    /\ path \in Paths /\ size \in Sizes
    /\ owner \in IF size <= Mixed THEN 1 .. size ELSE {1}
    /\ preimage \in IF path = "hopClaim" THEN {0, 1} ELSE {1}
    /\ book = AllKeys
    /\ sigs = << >>

\* KeyBook.replace: participant k holds a new key from now on.  The output was
\* made before and keeps the old ones.
Replace(k) ==
    /\ size <= Mixed /\ book = AllKeys
    /\ book' = [book EXCEPT ![k] = size + 1]
    /\ UNCHANGED <<path, size, owner, preimage, sigs>>

\* sign_input with a participant's key, for this transaction (1) or another (2):
\* in a small channel by anybody, in a large one by the next in order.
SignInput(k, tx) ==
    /\ Len(sigs) < Len(Signers)
    /\ size > Mixed => tx = 1 /\ k = Signers[Len(sigs) + 1]
    /\ sigs' = Append(sigs, <<book[k], tx>>)
    /\ UNCHANGED <<path, size, owner, preimage, book>>

ScriptsNext == \E k \in 1 .. size : Replace(k) \/ \E tx \in {1, 2} : SignInput(k, tx)
ScriptsSpec == ScriptsInit /\ [][ScriptsNext]_scriptVars

\* spend_verifies, of what the unlocking template builds; without a signature
\* the templates raise.
SpendVerifies == sigs # << >> /\ Verifies(UnlockingScript, LockingScript)

-----------------------------------------------------------------------------
\* An output is spent by its path exactly when all of the path's keys, in the
\* order of the script, signed the very transaction that spends it, and the claim
\* of a hop reveals the preimage: for any number of parties, also where the count
\* no longer fits OP_16 or its byte has the sign bit set, with no signature or
\* selector consumed by the wrong branch, and whoever's key was replaced before,
\* while or after the signatures were made.
UnlocksExactly ==
    SpendVerifies <=>
        /\ sigs = [i \in 1 .. Len(Signers) |-> <<Signers[i], 1>>]
        /\ path = "hopClaim" => preimage = 1
=============================================================================
