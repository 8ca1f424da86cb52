----------------------------- MODULE WriteOnce ------------------------------
(***************************************************************************)
(* What an idempotency key promises, without reservations, responses or    *)
(* requests: a key has one life at a time; a life leads to at most one     *)
(* write; until a key's life was ended, no write under it is of any other  *)
(* life; and clients are told only of what was written.                    *)
(* IdempotentWrites implements it.                                         *)
(***************************************************************************)
EXTENDS Naturals

CONSTANT Keys

VARIABLES clock,     \* lives begin and writes happen at moments of their own
          life,      \* the moment at which each key's life began, or 0
          ended,     \* the keys of which a life was ended
          written,   \* the writes: of which key, in which life of it
          told       \* the writes clients were told of

vars == <<clock, life, ended, written, told>>

Init ==
  /\ clock = 1
  /\ life = [k \in Keys |-> 0]
  /\ ended = {} /\ written = {} /\ told = {}

Begin(k) ==
  /\ clock' = clock + 1
  /\ life[k] = 0
  /\ life' = [life EXCEPT ![k] = clock]
  /\ UNCHANGED <<ended, written, told>>

\* Only of a key whose life was ended may an earlier life still write.
MayWrite(k) == IF k \in ended THEN 1..(clock - 1) ELSE {life[k]} \ {0}

Perform(k, n) ==                       \* n \in MayWrite(k)
  /\ clock' = clock + 1
  /\ \A w \in written : w.life # n
  /\ written' = written \cup {[key |-> k, life |-> n]}
  /\ UNCHANGED <<life, ended, told>>

Tell(w) ==                             \* w \in written
  /\ UNCHANGED <<clock, life, ended, written>>
  /\ told' = told \cup {w}

End(S) ==
  /\ UNCHANGED <<clock, written, told>>
  /\ \A k \in S : life[k] # 0
  /\ life' = [k \in Keys |-> IF k \in S THEN 0 ELSE life[k]]
  /\ ended' = ended \cup S

Next ==
  \/ \E k \in Keys : Begin(k) \/ \E n \in MayWrite(k) : Perform(k, n)
  \/ \E w \in written : Tell(w)
  \/ \E S \in SUBSET Keys : End(S)

Spec == Init /\ [][Next]_vars
=============================================================================
