------------------------------- MODULE MCExpect -------------------------------
(* Expect with configurations of up to four steps. *)
EXTENDS Expect, SequencesExt

Said(kind, word) ==
  [kind |-> kind, word |-> word, delimiter |-> Newline, compiles |-> TRUE]

Good == { Said("send", "hello"), Said("receive", "yellow"),
          Said("send", "how're ya now?"), Said("receive", "can't complain") }

MCWords == {x.word : x \in Good} \cup {""}
MCDelimiters == {Newline, ";"}

Odd == { [Said("send", "hello") EXCEPT !.delimiter = ";"],
         [Said("receive", "yellow") EXCEPT !.delimiter = "long"],
         [Said("receive", "yellow") EXCEPT !.compiles = FALSE],
         Said("both", "hello"), Said("neither", "") }

MCConfs ==
  BoundedSeq(Good, 4) \cup {<< x >> \o s : s \in BoundedSeq(Good, 2), x \in Odd}
=============================================================================
