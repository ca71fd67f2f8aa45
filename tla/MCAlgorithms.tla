----------------------------- MODULE MCAlgorithms -----------------------------
(***************************************************************************)
(* Algorithms with messages that reach every kind of field, lists of zero, *)
(* one and several entries, and the first two varint widths.               *)
(***************************************************************************)
EXTENDS Algorithms

MCVarWidths == <<1, 2, 3>>

Hash(b) == <<b, b + 1>>
Ping == [cmd |-> "ping", vals |-> << <<8>> >>]
OneBlock == [cmd |-> "getheaders", vals |-> << <<5>>, Hash(1), Hash(0) >>]
MCMessages ==
    { Ping, OneBlock,
      [cmd |-> "block", vals |-> << <<-2>>, Hash(2), Hash(0), <<5>>, <<3>>, <<1>>,
                                    <<1, 5>>, << >>, <<4, 0, 3>> >>],
      [cmd |-> "inv", vals |-> << <<1>>, Hash(0), <<2>>, Hash(3), <<1>>, Hash(4) >>],
      [cmd |-> "headers", vals |-> << >>],
      [cmd |-> "headers", vals |-> << Hash(0), Hash(1), Hash(2), Hash(3), Hash(4), Hash(0) >>],
      [cmd |-> "version",
       vals |-> << <<2>>, <<1>>, <<-1>>, <<0>>, Hash(1), <<9>>, <<1>>, Hash(2), <<4>>,
                   <<5>>, <<1, 0, 2>>, <<13>>, <<1>> >>] }
MCStreams == MCMessages \X {Ping, OneBlock}
=============================================================================
