-------------------------- MODULE IdempotentWrites --------------------------
(***************************************************************************)
(* The writes a client may repeat under an x-idempotency-key: uploads      *)
(* (app/main.py), new findings and reviewers' decisions                    *)
(* (app/findings_api.py).  All three reserve the key, do their write, store*)
(* the response with the key and append an audit event: four transactions, *)
(* of which a crash may leave any first few.  Retention and tenant deletion*)
(* remove findings, and then keys, writes and events, under the requests.  *)
(* One tenant: every statement names it.                                   *)
(***************************************************************************)
EXTENDS Naturals, FiniteSets

CONSTANTS
  Requests,     \* requests a client sends, each handled by one server thread
  Operations,   \* "upload", "finding_create:<case>", "finding_decision:<finding>"
  Refusing,     \* the operations that may raise a FindingError
  Names,        \* values of x-idempotency-key
  LastReserve,  \* bound: no key is reserved after this moment
  MaxCrashes,   \* bound: requests that die
  MaxErasures   \* bound: sweeps and deletions

ASSUME WritesAssumption ==
  /\ Refusing \subseteq Operations
  /\ LastReserve \in Nat /\ MaxCrashes \in Nat /\ MaxErasures \in Nat

VARIABLES
  now,
  keys,         \* idempotency_keys: a row per operation and key, or NoRow
  pc, held,     \* of each request: where it is, and the key and write it holds
  made,         \* every upload, finding and decision ever committed
  audited,      \* the writes with an audit event, even if it was swept since
  lost,         \* the writes whose request ended before its audit event
  replies,      \* what clients were told: key and write
  erased,       \* keys whose row was deleted at some time
  crashes, erasures,
  erasing       \* sweeps and deletions between their two transactions

history == <<made, audited, lost, replies, erased>>
bounds == <<crashes, erasures, erasing>>
vars == <<now, keys, pc, held, made, audited, lost, replies, erased,
          crashes, erasures, erasing>>

Keys == Operations \X Names
Moments == Nat \ {0}               \* every insert has a moment of its own
NoEffect == [key |-> <<>>, reserved |-> 0, at |-> 0]
Effect == [key : Keys, reserved : Moments, at : Moments]
NoRow == [status |-> "absent", created |-> 0, response |-> NoEffect]
Row == [status : {"reserved", "completed"}, created : Moments,
        response : Effect \cup {NoEffect}]
NothingHeld == [key |-> <<>>, reserved |-> 0, effect |-> NoEffect, undercut |-> FALSE]

Goto(r, place) == pc' = [pc EXCEPT ![r] = place]
Leave(r) == Goto(r, "idle") /\ held' = [held EXCEPT ![r] = NothingHeld]

Init ==
  /\ now = 1
  /\ keys = [k \in Keys |-> NoRow]
  /\ pc = [r \in Requests |-> "idle"]
  /\ held = [r \in Requests |-> NothingHeld]
  /\ made = {} /\ audited = {} /\ lost = {} /\ replies = {} /\ erased = {}
  /\ crashes = 0 /\ erasures = 0 /\ erasing = 0

-----------------------------------------------------------------------------
(* reserve_idempotency: INSERT ... ON CONFLICT DO NOTHING, else SELECT *)

FreeUnlessCompleted(k) == keys[k].status # "completed"   \* mutant: a reservation is ignored
Free(k) == keys[k].status = "absent"

Reserve(r, k) ==
  /\ pc[r] = "idle"
  /\ \/ /\ Free(k)
        /\ now <= LastReserve
        /\ keys' = [keys EXCEPT ![k] = [status |-> "reserved", created |-> now,
                                        response |-> NoEffect]]
        /\ held' = [held EXCEPT ![r] = [NothingHeld EXCEPT !.key = k, !.reserved = now]]
        /\ now' = now + 1
        /\ Goto(r, "write")
     \/ /\ ~Free(k)
        /\ held' = [held EXCEPT ![r] = [NothingHeld EXCEPT !.key = k]]
        /\ Goto(r, "conflict")
        /\ UNCHANGED <<now, keys>>
  /\ UNCHANGED <<history, bounds>>

\* A stored response is told again; without one the client gets a 409.
Replay(r) ==
  LET row == keys[held[r].key]
  IN /\ pc[r] = "conflict"
     /\ replies' = IF row.response = NoEffect THEN replies
                   ELSE replies \cup {[key |-> held[r].key, effect |-> row.response]}
     /\ Leave(r)
     /\ UNCHANGED <<now, keys, made, audited, lost, erased, bounds>>

-----------------------------------------------------------------------------
(* save_upload, create_finding or decide_finding *)

Write(r) ==
  LET e == [key |-> held[r].key, reserved |-> held[r].reserved, at |-> now]
  IN /\ pc[r] = "write"
     /\ now' = now + 1
     /\ made' = made \cup {e}
     /\ held' = [held EXCEPT ![r] = [held[r] EXCEPT !.effect = e]]
     /\ Goto(r, "complete")
     /\ UNCHANGED <<keys, audited, lost, replies, erased, bounds>>

\* FindingError: the client gets a 404, 409 or 422, the key stays reserved.
Refuse(r) ==
  /\ pc[r] = "write"
  /\ held[r].key[1] \in Refusing
  /\ Leave(r)
  /\ UNCHANGED <<now, keys, history, bounds>>

\* create_finding and decide_finding, the finding read and not yet viewed.
Viewing(r) == pc[r] \in {"write", "complete"} /\ held[r].key[1] \in Refusing

\* The view that ends create_finding and decide_finding finds the finding deleted: a
\* 404 although the write has committed, and neither a response nor an event of it.
RefuseView(r) ==
  /\ pc[r] = "complete"
  /\ held[r].undercut
  /\ lost' = lost \cup {held[r].effect}
  /\ Leave(r)
  /\ UNCHANGED <<now, keys, made, audited, replies, erased, bounds>>

-----------------------------------------------------------------------------
(* complete_idempotency and append_audit *)

SameName(k) == {l \in Keys : l[2] = k[2]}    \* mutant: no operation in the WHERE clause
SameKey(k) == {k}

FoundAlways(k) == TRUE                       \* mutant: an upsert
Found(k) == keys[k].status # "absent"

CompletedEmpty(row, e) == [row EXCEPT !.status = "completed"]   \* mutant: nothing stored
Completed(row, e) == [row EXCEPT !.status = "completed", !.response = e]

\* The UPDATE finds no row if the key was erased, and another request's if it was
\* erased and reserved again.
Complete(r) ==
  /\ pc[r] = "complete"
  /\ keys' = [k \in Keys |->
                IF k \in SameKey(held[r].key) /\ Found(k)
                THEN Completed(keys[k], held[r].effect) ELSE keys[k]]
  /\ held' = [held EXCEPT ![r] = [held[r] EXCEPT !.undercut = FALSE]]
  /\ Goto(r, "audit")
  /\ UNCHANGED <<now, history, bounds>>

EventsIfKeyed(e) ==                          \* mutant: a vanished key is an error
  IF keys[e.key].status = "absent" THEN {} ELSE {e}
Events(e) == {e}

Audit(r) ==
  /\ pc[r] = "audit"
  /\ audited' = audited \cup Events(held[r].effect)
  /\ replies' = replies \cup {[key |-> held[r].key, effect |-> held[r].effect]}
  /\ Leave(r)
  /\ UNCHANGED <<now, keys, made, lost, erased, bounds>>

Crash(r) ==
  /\ pc[r] # "idle"
  /\ crashes < MaxCrashes /\ crashes' = crashes + 1
  /\ lost' = IF pc[r] \in {"complete", "audit"} THEN lost \cup {held[r].effect} ELSE lost
  /\ Leave(r)
  /\ UNCHANGED <<now, keys, made, audited, replies, erased, erasures, erasing>>

-----------------------------------------------------------------------------
(* retention_sweep and delete_tenant: the findings go first, in a transaction of their own *)

EraseFindings ==
  /\ erasures < MaxErasures /\ erasures' = erasures + 1 /\ erasing' = erasing + 1
  /\ held' = [r \in Requests |-> [held[r] EXCEPT !.undercut = Viewing(r)]]
  /\ UNCHANGED <<now, keys, pc, history, crashes>>

\* Whether the rows written go too is all one: no request above looks at them.
EraseKeys(cutoff) ==
  /\ erasing > 0 /\ erasing' = erasing - 1
  /\ keys' = [k \in Keys |-> IF keys[k].created < cutoff THEN NoRow ELSE keys[k]]
  /\ erased' = erased \cup {k \in Keys : keys[k].status # "absent" /\ keys[k].created < cutoff}
  /\ UNCHANGED <<now, pc, held, made, audited, lost, replies, crashes, erasures>>

RetentionSweep == \E cutoff \in 1..now : EraseKeys(cutoff)
DeleteTenant == EraseKeys(now)

-----------------------------------------------------------------------------
Next ==
  \/ \E r \in Requests : \/ \E k \in Keys : Reserve(r, k)
                         \/ Replay(r) \/ Write(r) \/ Refuse(r) \/ RefuseView(r)
                         \/ Complete(r) \/ Audit(r) \/ Crash(r)
  \/ EraseFindings \/ RetentionSweep \/ DeleteTenant

Spec == Init /\ [][Next]_vars

(* A thread that runs goes on; nobody has to send or repeat a request, or to sweep. *)
Fairness ==
  \A r \in Requests :
    /\ WF_vars(Replay(r)) /\ WF_vars(Write(r)) /\ WF_vars(Complete(r)) /\ WF_vars(Audit(r))

FairSpec == Spec /\ Fairness

-----------------------------------------------------------------------------
(* Properties *)

TypeOK ==
  /\ now \in Moments
  /\ keys \in [Keys -> Row \cup {NoRow}]
  /\ made \subseteq Effect
  /\ pc \in [Requests -> {"idle", "conflict", "write", "complete", "audit"}]
  /\ \A r \in Requests :
       /\ pc[r] # "idle" => held[r].key \in Keys
       /\ pc[r] \in {"complete", "audit"} => held[r].effect \in made
  /\ audited \subseteq made /\ lost \subseteq made /\ erased \subseteq Keys
  /\ replies \subseteq [key : Keys, effect : Effect]
  /\ crashes \in Nat /\ erasures \in Nat /\ erasing \in 0..erasures

(* However often and however concurrently a request is repeated, and whichever of its    *)
(* attempts die, a key leads to a second write only after its row was deleted, and then  *)
(* by a reservation of its own.                                                          *)
OneWritePerKey ==
  \A e, f \in made : e.key = f.key /\ e # f => e.key \in erased /\ e.reserved # f.reserved

(* Two clients that used one key are told of one write, unless the key's row was deleted *)
(* between them; and what they are told of was written under that key.                   *)
RepliesAgree ==
  /\ \A a, b \in replies : a.key = b.key /\ a.effect # b.effect => a.key \in erased
  /\ \A a \in replies : a.effect.key = a.key /\ a.effect \in made

(* A write without an audit event has a request that is still on its way to append one,  *)
(* died, or found its finding deleted: an erased key alone does not skip the event.      *)
WritesAreAudited ==
  \A e \in made :
    \/ e \in audited \cup lost
    \/ \E r \in Requests : pc[r] \in {"complete", "audit"} /\ held[r].effect = e

(* Reservations, stored responses and retried requests come to what WriteOnce says of a  *)
(* key: a life of it is a row from its INSERT to its DELETE.  No life begins while       *)
(* another lasts, each is written in at most once, and under a row that still stands     *)
(* nobody writes for an earlier one; whoever is told of a write is told of a committed   *)
(* write of that key.                                                                    *)
Promise == INSTANCE WriteOnce WITH
  clock <- now,
  life <- [k \in Keys |-> keys[k].created],
  ended <- erased,
  written <- {[key |-> e.key, life |-> e.reserved] : e \in made},
  told <- {[key |-> a.key, life |-> a.effect.reserved] : a \in replies}
ImplementsWriteOnce == Promise!Spec

(* If no request dies or is refused, a reserved key gets a response that repeats of the  *)
(* request will be told, or is deleted.                                                  *)
ReservationsResolve ==
  \A k \in Keys : keys[k].status # "absent" ~>
    keys[k].response # NoEffect \/ keys[k].status = "absent"

(* findings_api.py answers a repeat that finds a key without a response with a 409,      *)
(* "Write with this idempotency key is already in progress".                             *)
InProgressIsTrue ==
  \A r \in Requests :
    pc[r] = "conflict" /\ keys[held[r].key].status = "reserved" =>
      \E q \in Requests : pc[q] \in {"write", "complete"} /\ held[q].key = held[r].key
=============================================================================
