--------------------------- MODULE HandleContract ---------------------------
(***************************************************************************)
(* What a table of JavaScript values promises the wasm code that refers to *)
(* them by index: an index that was handed out names one value until it is *)
(* given back, whatever else is put into the table or taken out of it.     *)
(***************************************************************************)
VARIABLE names  \* from the indices that are out to the values they name

Init == names = <<>>

\* What stays out keeps its value.
Kept(S) == \A h \in S : names'[h] = names[h]

\* Indices that were free go out.
Give ==
  /\ DOMAIN names \subseteq DOMAIN names' /\ DOMAIN names # DOMAIN names'
  /\ Kept(DOMAIN names)

\* Some come back, or all of them with the instance.
TakeBack ==
  /\ DOMAIN names' \subseteq DOMAIN names
  /\ Kept(DOMAIN names')

Next == Give \/ TakeBack

Spec == Init /\ [][Next]_names
=============================================================================
