----------------------- MODULE AutoregressiveDecoding -----------------------
(***************************************************************************)
(* What a client of the engine is promised, speculation or not: a request  *)
(* grows by tokens the target model may choose after exactly the tokens    *)
(* before them, one by one, and never past its stop.                       *)
(***************************************************************************)
EXTENDS Sequences, Integers

CONSTANTS
  Reqs,
  Prompt,          \* Prompt[r]: the tokens of r's prompt
  Chooses(_, _),   \* Chooses(r, s): the tokens r's sampling may pick after s
  Stopped(_, _)    \* Stopped(r, s): s is complete

VARIABLE text      \* text[r]: prompt and output so far

(* new continues old with the target's own tokens, and stops where it must. *)
Decodes(r, old, new) ==
  /\ Len(old) < Len(new) /\ SubSeq(new, 1, Len(old)) = old
  /\ \A i \in Len(old) + 1 .. Len(new) :
       LET before == SubSeq(new, 1, i - 1)
       IN  new[i] \in Chooses(r, before) /\ ~Stopped(r, before)

Init == text = Prompt
Next == /\ DOMAIN text' = Reqs
        /\ \A r \in Reqs : text'[r] = text[r] \/ Decodes(r, text[r], text'[r])
Spec == Init /\ [][Next]_text
=============================================================================
