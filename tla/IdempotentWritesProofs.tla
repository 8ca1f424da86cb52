----------------------- MODULE IdempotentWritesProofs -----------------------
(***************************************************************************)
(* IdempotentWrites for any number of requests, operations, keys, crashes  *)
(* and erasures.  The argument follows the moment at which a key was       *)
(* reserved: it belongs to one request, leads to one write, and stays the  *)
(* moment of the key's row until the row is deleted.                       *)
(***************************************************************************)
EXTENDS IdempotentWrites, TLAPS

Owning == {"write", "complete", "audit"}
Written == {"complete", "audit"}

\* The row of a key that was never deleted still has the moment of its reservation.
Stands(k, reserved) ==
  k \in erased \/ (keys[k].status # "absent" /\ keys[k].created = reserved)

StandsAfter(k, reserved) ==
  k \in erased' \/ (keys'[k].status # "absent" /\ keys'[k].created = reserved)

HeldInv ==
  /\ held \in [Requests -> [key : Keys \cup {<<>>}, reserved : Nat,
                            effect : Effect \cup {NoEffect}, undercut : BOOLEAN]]
  /\ \A r \in Requests :
       /\ pc[r] \in Owning => /\ held[r].reserved \in Moments /\ held[r].reserved < now
                              /\ Stands(held[r].key, held[r].reserved)
       /\ pc[r] = "write" => \A e \in made : e.reserved # held[r].reserved
       /\ pc[r] \in Written => /\ held[r].effect.key = held[r].key
                               /\ held[r].effect.reserved = held[r].reserved

OwnersDiffer ==
  \A r, q \in Requests :
    r # q /\ pc[r] \in Owning /\ pc[q] \in Owning => held[r].reserved # held[q].reserved

MadeInv ==
  /\ \A e \in made : e.reserved < now /\ Stands(e.key, e.reserved)
  /\ \A e, f \in made : e.reserved = f.reserved => e = f

ResponseInv ==
  /\ \A k \in Keys : keys[k].response # NoEffect =>
       keys[k].response \in made /\ keys[k].response.key = k
  /\ \A a \in replies : a.effect \in made /\ a.effect.key = a.key

WInv ==
  /\ TypeOK /\ HeldInv /\ OwnersDiffer /\ MadeInv /\ ResponseInv /\ WritesAreAudited

-----------------------------------------------------------------------------
LEMMA InitWInv == Init => WInv
<1> SUFFICES ASSUME Init PROVE WInv
  OBVIOUS
<1>1. TypeOK
  BY WritesAssumption DEF Init, TypeOK, Moments, Row
<1>2. NothingHeld \in [key : Keys \cup {<<>>}, reserved : Nat,
                       effect : Effect \cup {NoEffect}, undercut : BOOLEAN]
  BY DEF NothingHeld
<1>3. HeldInv /\ OwnersDiffer
  BY <1>2 DEF Init, HeldInv, OwnersDiffer, Owning, Written
<1>4. MadeInv /\ ResponseInv /\ WritesAreAudited
  BY DEF Init, MadeInv, ResponseInv, WritesAreAudited, NoRow
<1> QED
  BY <1>1, <1>3, <1>4 DEF WInv

LEMMA LeaveHeld ==
  ASSUME WInv, NEW r \in Requests, Leave(r)
  PROVE  /\ pc' = [pc EXCEPT ![r] = "idle"] /\ held' = [held EXCEPT ![r] = NothingHeld]
         /\ pc' \in [Requests -> {"idle", "conflict", "write", "complete", "audit"}]
         /\ held' \in [Requests -> [key : Keys \cup {<<>>}, reserved : Nat,
                                    effect : Effect \cup {NoEffect}, undercut : BOOLEAN]]
         /\ \A q \in Requests : q = r => pc'[q] = "idle"
         /\ \A q \in Requests : q # r => pc'[q] = pc[q] /\ held'[q] = held[q]
  BY DEF Leave, Goto, WInv, TypeOK, HeldInv, NothingHeld

\* Whoever leaves without a change to keys, writes and replies disturbs nobody.
LEMMA LeavingKeeps ==
  ASSUME WInv, NEW r \in Requests, Leave(r),
         UNCHANGED <<now, keys, made, erased>>
  PROVE  /\ HeldInv' /\ OwnersDiffer' /\ MadeInv'
         /\ \A q \in Requests : /\ pc'[q] # "idle" => held'[q].key \in Keys
                                /\ pc'[q] \in Written => held'[q].effect \in made
<1>1. HeldInv'
  BY LeaveHeld DEF WInv, HeldInv, Stands, Owning, Written
<1>2. OwnersDiffer'
  BY LeaveHeld DEF WInv, OwnersDiffer, Owning
<1>3. MadeInv'
  BY DEF WInv, MadeInv, Stands
<1> QED
  BY <1>1, <1>2, <1>3, LeaveHeld DEF WInv, TypeOK, Written

\* A step after which every reservation stands that stood before, of a request r that
\* keeps what it holds, or of none.
LEMMA StandingKeeps ==
  ASSUME WInv, UNCHANGED <<made, replies>>, now' \in Moments, now <= now',
         \A k \in Keys, t \in Moments : Stands(k, t) => Stands(k, t)'
  PROVE  MadeInv'
BY DEF WInv, TypeOK, MadeInv, Effect, Moments

LEMMA ReserveKeeps ==
  ASSUME WInv, NEW r \in Requests, NEW k \in Keys, Reserve(r, k)
  PROVE  WInv'
<1>a. /\ pc[r] = "idle" /\ UNCHANGED <<made, audited, lost, replies, erased>>
      /\ UNCHANGED <<crashes, erasures, erasing>>
  BY DEF Reserve, history, bounds
<1>1. CASE Free(k)
  <2> DEFINE mine == [key |-> k, reserved |-> now, effect |-> NoEffect, undercut |-> FALSE]
             fresh == [status |-> "reserved", created |-> now, response |-> NoEffect]
  <2>1. /\ keys' = [keys EXCEPT ![k] = fresh] /\ now' = now + 1
        /\ pc' = [pc EXCEPT ![r] = "write"] /\ held' = [held EXCEPT ![r] = mine]
    BY <1>1 DEF Reserve, Goto, NothingHeld
  <2>2. /\ keys \in [Keys -> Row \cup {NoRow}] /\ fresh \in Row /\ now \in Moments
        /\ pc \in [Requests -> {"idle", "conflict", "write", "complete", "audit"}]
    BY DEF WInv, TypeOK, Row
  <2>3. /\ keys'[k] = fresh /\ \A l \in Keys : l # k => keys'[l] = keys[l]
        /\ keys' \in [Keys -> Row \cup {NoRow}]
    BY <2>1, <2>2
  <2>4. /\ mine \in [key : Keys \cup {<<>>}, reserved : Nat,
                     effect : Effect \cup {NoEffect}, undercut : BOOLEAN]
        /\ mine.key = k /\ mine.reserved = now
    BY <2>2 DEF Moments
  <2>5. /\ pc'[r] = "write" /\ held'[r] = mine
        /\ \A q \in Requests : q # r => pc'[q] = pc[q] /\ held'[q] = held[q]
        /\ pc' \in [Requests -> {"idle", "conflict", "write", "complete", "audit"}]
        /\ held' \in [Requests -> [key : Keys \cup {<<>>}, reserved : Nat,
                                   effect : Effect \cup {NoEffect}, undercut : BOOLEAN]]
    BY <2>1, <2>2, <2>4 DEF WInv, HeldInv
  <2>6. fresh.status # "absent" /\ fresh.created = now /\ fresh.response = NoEffect
    OBVIOUS
  <2>7. now' \in Moments /\ now < now' /\ now <= now'
    BY <2>1, <2>2 DEF Moments
  <2> HIDE DEF mine, fresh
  <2>8. \A l \in Keys, t \in Moments : Stands(l, t) => Stands(l, t)'
    BY <1>1, <1>a, <2>3 DEF Stands, Free
  <2>9. TypeOK'
    BY <1>a, <2>3, <2>4, <2>5, <2>7 DEF WInv, TypeOK
  <2>10. StandsAfter(k, now) /\ \A e \in made' : e.reserved # now
    BY <2>2, <2>3, <2>6, <1>a DEF StandsAfter, WInv, MadeInv, Moments, TypeOK, Effect
  <2>11. ASSUME NEW q \in Requests
         PROVE  /\ pc'[q] \in Owning => /\ held'[q].reserved \in Moments
                                        /\ held'[q].reserved < now'
                                        /\ StandsAfter(held'[q].key, held'[q].reserved)
                /\ pc'[q] = "write" => \A e \in made' : e.reserved # held'[q].reserved
                /\ pc'[q] \in Written => /\ held'[q].effect.key = held'[q].key
                                         /\ held'[q].effect.reserved = held'[q].reserved
    <3>1. CASE q = r
      BY <3>1, <2>2, <2>4, <2>5, <2>7, <2>10 DEF Written
    <3>2. CASE q # r
      <4>1. /\ pc[q] \in Owning => held[q].key \in Keys /\ held[q].reserved \in Moments
            /\ pc[q] = "write" => pc[q] \in Owning
        BY DEF WInv, TypeOK, HeldInv, Owning
      <4>2. pc[q] \in Owning => StandsAfter(held[q].key, held[q].reserved)
        BY <4>1, <2>8 DEF WInv, HeldInv, Stands, StandsAfter
      <4> QED
        BY <3>2, <4>1, <4>2, <2>2, <2>5, <2>7, <1>a DEF WInv, HeldInv, Moments
    <3> QED
      BY <3>1, <3>2
  <2>12. HeldInv'
    BY <2>5, <2>11 DEF HeldInv, Stands, StandsAfter
  <2>13. OwnersDiffer'
    BY <2>2, <2>4, <2>5 DEF WInv, HeldInv, OwnersDiffer, Moments
  <2>14. MadeInv'
    BY <2>7, <2>8, <1>a, StandingKeeps
  <2>15. ResponseInv'
    BY <2>3, <2>6, <1>a DEF WInv, ResponseInv
  <2>16. WritesAreAudited'
    BY <2>5, <1>a DEF WInv, WritesAreAudited
  <2> QED
    BY <2>9, <2>12, <2>13, <2>14, <2>15, <2>16 DEF WInv
<1>2. CASE ~Free(k)
  <2> DEFINE mine == [key |-> k, reserved |-> 0, effect |-> NoEffect, undercut |-> FALSE]
  <2>1. /\ pc' = [pc EXCEPT ![r] = "conflict"] /\ held' = [held EXCEPT ![r] = mine]
        /\ UNCHANGED <<now, keys>>
    BY <1>2 DEF Reserve, Goto, NothingHeld
  <2>2. /\ mine \in [key : Keys \cup {<<>>}, reserved : Nat,
                     effect : Effect \cup {NoEffect}, undercut : BOOLEAN]
        /\ mine.key = k
    OBVIOUS
  <2> HIDE DEF mine
  <2>3. /\ pc'[r] = "conflict" /\ held'[r] = mine
        /\ \A q \in Requests : q # r => pc'[q] = pc[q] /\ held'[q] = held[q]
        /\ pc' \in [Requests -> {"idle", "conflict", "write", "complete", "audit"}]
        /\ held' \in [Requests -> [key : Keys \cup {<<>>}, reserved : Nat,
                                   effect : Effect \cup {NoEffect}, undercut : BOOLEAN]]
    BY <2>1, <2>2 DEF WInv, TypeOK, HeldInv
  <2>4. TypeOK'
    BY <1>a, <2>1, <2>2, <2>3 DEF WInv, TypeOK
  <2>5. HeldInv' /\ OwnersDiffer'
    BY <1>a, <2>1, <2>3 DEF WInv, HeldInv, OwnersDiffer, Stands, Owning, Written
  <2>6. MadeInv' /\ ResponseInv' /\ WritesAreAudited'
    BY <1>a, <2>1, <2>3 DEF WInv, MadeInv, ResponseInv, WritesAreAudited, Stands
  <2> QED
    BY <2>4, <2>5, <2>6 DEF WInv
<1> QED
  BY <1>1, <1>2

\* A request may leave if its write has an event by then, or is written off.
LEMMA LeavingInv ==
  ASSUME WInv, NEW r \in Requests, Leave(r), UNCHANGED <<now, keys, made, erased>>,
         audited' \subseteq made, lost' \subseteq made,
         audited \subseteq audited', lost \subseteq lost',
         pc[r] \in Written => held[r].effect \in audited' \cup lost',
         replies' \subseteq [key : Keys, effect : Effect],
         \A a \in replies' : a.effect \in made /\ a.effect.key = a.key,
         crashes' \in Nat, erasures' = erasures, erasing' = erasing
  PROVE  WInv'
<1>1. TypeOK'
  BY LeaveHeld, LeavingKeeps DEF WInv, TypeOK, Written
<1>2. ResponseInv'
  BY DEF WInv, ResponseInv
<1>3. WritesAreAudited'
  BY LeaveHeld DEF WInv, WritesAreAudited, Written
<1> QED
  BY <1>1, <1>2, <1>3, LeavingKeeps DEF WInv

LEMMA EffectOfWritten ==
  ASSUME WInv, NEW r \in Requests, pc[r] \in Written
  PROVE  /\ held[r].effect \in made /\ held[r].key \in Keys
         /\ held[r].effect.key = held[r].key /\ held[r].effect \in Effect
BY DEF WInv, TypeOK, HeldInv, Written

LEMMA ReplayKeeps ==
  ASSUME WInv, NEW r \in Requests, Replay(r)
  PROVE  WInv'
<1> DEFINE k == held[r].key
           told == [key |-> k, effect |-> keys[k].response]
<1>1. /\ k \in Keys /\ pc[r] \notin Written /\ Leave(r)
      /\ UNCHANGED <<now, keys, made, audited, lost, erased, crashes, erasures, erasing>>
      /\ replies' = IF keys[k].response = NoEffect THEN replies ELSE replies \cup {told}
  BY DEF Replay, WInv, TypeOK, Written, bounds
<1>2. keys[k].response # NoEffect =>
        told \in [key : Keys, effect : Effect] /\ told.effect \in made /\ told.effect.key = told.key
  BY <1>1 DEF WInv, ResponseInv, TypeOK
<1> HIDE DEF told
<1>3. /\ replies' \subseteq [key : Keys, effect : Effect]
      /\ \A a \in replies' : a.effect \in made /\ a.effect.key = a.key
  BY <1>1, <1>2 DEF WInv, TypeOK, ResponseInv
<1> QED
  BY <1>1, <1>3, LeavingInv DEF WInv, TypeOK

LEMMA RefuseKeeps ==
  ASSUME WInv, NEW r \in Requests, Refuse(r) \/ RefuseView(r)
  PROVE  WInv'
<1>1. CASE Refuse(r)
  <2>1. /\ pc[r] \notin Written /\ Leave(r)
        /\ UNCHANGED <<now, keys, made, audited, lost, replies, erased, crashes, erasures, erasing>>
    BY <1>1 DEF Refuse, Written, history, bounds
  <2> QED
    BY <2>1, LeavingInv DEF WInv, TypeOK, ResponseInv
<1>2. CASE RefuseView(r)
  <2>1. /\ pc[r] \in Written /\ Leave(r) /\ lost' = lost \cup {held[r].effect}
        /\ UNCHANGED <<now, keys, made, audited, replies, erased, crashes, erasures, erasing>>
    BY <1>2 DEF RefuseView, Written, bounds
  <2>2. held[r].effect \in made
    BY <2>1, EffectOfWritten
  <2> QED
    BY <2>1, <2>2, LeavingInv DEF WInv, TypeOK, ResponseInv
<1> QED
  BY <1>1, <1>2

LEMMA AuditKeeps ==
  ASSUME WInv, NEW r \in Requests, Audit(r)
  PROVE  WInv'
<1> DEFINE told == [key |-> held[r].key, effect |-> held[r].effect]
<1>1. /\ pc[r] \in Written /\ Leave(r) /\ audited' = audited \cup {held[r].effect}
      /\ replies' = replies \cup {told}
      /\ UNCHANGED <<now, keys, made, lost, erased, crashes, erasures, erasing>>
  BY DEF Audit, Events, Written, bounds
<1>2. /\ told \in [key : Keys, effect : Effect] /\ told.effect \in made
      /\ told.effect.key = told.key /\ held[r].effect \in made
  BY <1>1, EffectOfWritten
<1> HIDE DEF told
<1> QED
  BY <1>1, <1>2, LeavingInv DEF WInv, TypeOK, ResponseInv

LEMMA CrashKeeps ==
  ASSUME WInv, NEW r \in Requests, Crash(r)
  PROVE  WInv'
<1>1. /\ Leave(r) /\ lost' = IF pc[r] \in Written THEN lost \cup {held[r].effect} ELSE lost
      /\ UNCHANGED <<now, keys, made, audited, replies, erased, erasures, erasing>>
      /\ crashes' \in Nat
  BY DEF Crash, Written, WInv, TypeOK
<1>2. pc[r] \in Written => held[r].effect \in made
  BY EffectOfWritten
<1> QED
  BY <1>1, <1>2, LeavingInv DEF WInv, TypeOK, ResponseInv

-----------------------------------------------------------------------------
LEMMA WriteKeeps ==
  ASSUME WInv, NEW r \in Requests, Write(r)
  PROVE  WInv'
<1> DEFINE e == [key |-> held[r].key, reserved |-> held[r].reserved, at |-> now]
           mine == [held[r] EXCEPT !.effect = e]
<1>1. /\ pc[r] = "write" /\ now' = now + 1 /\ made' = made \cup {e}
      /\ held' = [held EXCEPT ![r] = mine] /\ pc' = [pc EXCEPT ![r] = "complete"]
      /\ UNCHANGED <<keys, audited, lost, replies, erased, crashes, erasures, erasing>>
  BY DEF Write, Goto, bounds
<1>2. /\ held[r].key \in Keys /\ held[r].reserved \in Moments /\ held[r].reserved < now
      /\ Stands(held[r].key, held[r].reserved)
      /\ \A f \in made : f.reserved # held[r].reserved
  BY <1>1 DEF WInv, TypeOK, HeldInv, Owning
<1>3. /\ e \in Effect /\ e.key = held[r].key /\ e.reserved = held[r].reserved
      /\ now \in Moments /\ now' \in Moments /\ now < now'
  BY <1>1, <1>2 DEF WInv, TypeOK, Effect, Moments
<1> HIDE DEF e
<1>4. /\ mine \in [key : Keys \cup {<<>>}, reserved : Nat,
                   effect : Effect \cup {NoEffect}, undercut : BOOLEAN]
      /\ mine.key = held[r].key /\ mine.reserved = held[r].reserved /\ mine.effect = e
  BY <1>3 DEF WInv, HeldInv
<1> HIDE DEF mine
<1>5. /\ pc'[r] = "complete" /\ held'[r] = mine
      /\ \A q \in Requests : q # r => pc'[q] = pc[q] /\ held'[q] = held[q]
      /\ pc' \in [Requests -> {"idle", "conflict", "write", "complete", "audit"}]
      /\ held' \in [Requests -> [key : Keys \cup {<<>>}, reserved : Nat,
                                 effect : Effect \cup {NoEffect}, undercut : BOOLEAN]]
  BY <1>1, <1>4 DEF WInv, TypeOK, HeldInv
<1>6. TypeOK'
  BY <1>1, <1>2, <1>3, <1>4, <1>5 DEF WInv, TypeOK
<1>7. \A q \in Requests : q # r /\ pc[q] = "write" => e.reserved # held[q].reserved
  BY <1>1, <1>3 DEF WInv, OwnersDiffer, Owning
<1>8. HeldInv'
  <2>1. ASSUME NEW q \in Requests
        PROVE  /\ pc'[q] \in Owning => /\ held'[q].reserved \in Moments
                                       /\ held'[q].reserved < now'
                                       /\ Stands(held'[q].key, held'[q].reserved)
               /\ pc'[q] = "write" => \A f \in made' : f.reserved # held'[q].reserved
               /\ pc'[q] \in Written => /\ held'[q].effect.key = held'[q].key
                                        /\ held'[q].effect.reserved = held'[q].reserved
    <3>1. CASE q = r
      BY <3>1, <1>2, <1>3, <1>4, <1>5 DEF Moments
    <3>2. CASE q # r
      <4>1. pc[q] \in Owning => held[q].reserved \in Moments /\ held[q].reserved < now'
        BY <1>3 DEF WInv, HeldInv, Moments
      <4> QED
        BY <3>2, <4>1, <1>1, <1>5, <1>7 DEF WInv, HeldInv
    <3> QED
      BY <3>1, <3>2
  <2> QED
    BY <2>1, <1>1, <1>5 DEF HeldInv, Stands
<1>9. OwnersDiffer'
  BY <1>1, <1>4, <1>5 DEF WInv, OwnersDiffer, Owning
<1>10. MadeInv'
  <2>1. \A f \in made' : f.reserved < now' /\ Stands(f.key, f.reserved)
    BY <1>1, <1>2, <1>3 DEF WInv, MadeInv, TypeOK, Effect, Moments
  <2>2. \A f, g \in made' : f.reserved = g.reserved => f = g
    BY <1>1, <1>2, <1>3 DEF WInv, MadeInv
  <2> QED
    BY <2>1, <2>2, <1>1 DEF MadeInv, Stands
<1>11. ResponseInv' /\ WritesAreAudited'
  BY <1>1, <1>4, <1>5 DEF WInv, ResponseInv, WritesAreAudited
<1> QED
  BY <1>6, <1>8, <1>9, <1>10, <1>11 DEF WInv

LEMMA CompleteKeeps ==
  ASSUME WInv, NEW r \in Requests, Complete(r)
  PROVE  WInv'
<1> DEFINE e == held[r].effect
           mine == [held[r] EXCEPT !.undercut = FALSE]
<1>1. /\ pc[r] \in Written /\ held' = [held EXCEPT ![r] = mine]
      /\ pc' = [pc EXCEPT ![r] = "audit"]
      /\ UNCHANGED <<now, made, audited, lost, replies, erased, crashes, erasures, erasing>>
  BY DEF Complete, Goto, Written, history, bounds
<1>2. e \in made /\ held[r].key \in Keys /\ e.key = held[r].key /\ e \in Effect
  BY <1>1, EffectOfWritten
<1>3. /\ mine \in [key : Keys \cup {<<>>}, reserved : Nat,
                   effect : Effect \cup {NoEffect}, undercut : BOOLEAN]
      /\ mine.key = held[r].key /\ mine.reserved = held[r].reserved /\ mine.effect = e
  BY DEF WInv, HeldInv
<1> HIDE DEF mine
<1>4. /\ pc'[r] = "audit" /\ held'[r] = mine
      /\ \A q \in Requests : q # r => pc'[q] = pc[q] /\ held'[q] = held[q]
      /\ pc' \in [Requests -> {"idle", "conflict", "write", "complete", "audit"}]
      /\ held' \in [Requests -> [key : Keys \cup {<<>>}, reserved : Nat,
                                 effect : Effect \cup {NoEffect}, undercut : BOOLEAN]]
  BY <1>1, <1>3 DEF WInv, TypeOK, HeldInv
<1>5. /\ DOMAIN keys' = Keys /\ keys' = [k \in Keys |-> keys'[k]]
      /\ \A k \in Keys : k # held[r].key => keys'[k] = keys[k]
      /\ keys'[held[r].key] =
           IF Found(held[r].key) THEN Completed(keys[held[r].key], e) ELSE keys[held[r].key]
  BY <1>2 DEF Complete, SameKey
<1>6. ASSUME Found(held[r].key)
      PROVE  /\ Completed(keys[held[r].key], e) \in Row
             /\ Completed(keys[held[r].key], e).status = "completed"
             /\ Completed(keys[held[r].key], e).created = keys[held[r].key].created
             /\ Completed(keys[held[r].key], e).response = e
  <2>1. keys[held[r].key] \in Row
    BY <1>2, <1>6 DEF WInv, TypeOK, Found, NoRow
  <2> QED
    BY <2>1, <1>2 DEF Completed, Row
<1>7. keys' \in [Keys -> Row \cup {NoRow}]
  BY <1>2, <1>5, <1>6 DEF WInv, TypeOK
<1>8. /\ \A k \in Keys : keys[k].status # "absent" =>
           keys'[k].status # "absent" /\ keys'[k].created = keys[k].created
      /\ \A k \in Keys : \/ keys'[k].response = keys[k].response
                         \/ k = held[r].key /\ keys'[k].response = e
  BY <1>2, <1>5, <1>6 DEF Found
<1>9. \A k \in Keys, t \in Moments : Stands(k, t) => Stands(k, t)'
  BY <1>1, <1>8 DEF Stands
<1>10. TypeOK'
  BY <1>1, <1>2, <1>3, <1>4, <1>7 DEF WInv, TypeOK, Written
<1>11. HeldInv'
  <2>1. ASSUME NEW q \in Requests, pc[q] \in Owning
        PROVE  StandsAfter(held[q].key, held[q].reserved)
    <3>1. /\ held[q].key \in Keys /\ held[q].reserved \in Moments
          /\ Stands(held[q].key, held[q].reserved)
      BY <2>1 DEF WInv, TypeOK, HeldInv, Owning
    <3> QED
      BY <3>1, <1>9 DEF Stands, StandsAfter
  <2> QED
    BY <2>1, <1>1, <1>3, <1>4 DEF WInv, HeldInv, Stands, StandsAfter, Owning, Written
<1>12. OwnersDiffer'
  BY <1>1, <1>3, <1>4 DEF WInv, OwnersDiffer, Owning, Written
<1>13. MadeInv'
  BY <1>1, <1>9, StandingKeeps DEF WInv, TypeOK, Moments
<1>14. ResponseInv'
  BY <1>1, <1>2, <1>8 DEF WInv, ResponseInv
<1>15. WritesAreAudited'
  BY <1>1, <1>3, <1>4 DEF WInv, WritesAreAudited, Written
<1> QED
  BY <1>10, <1>11, <1>12, <1>13, <1>14, <1>15 DEF WInv

LEMMA EraseFindingsKeeps ==
  ASSUME WInv, EraseFindings
  PROVE  WInv'
<1>1. /\ held' = [r \in Requests |-> [held[r] EXCEPT !.undercut = Viewing(r)]]
      /\ erasures' \in Nat /\ erasing' \in 0..erasures'
      /\ UNCHANGED <<now, keys, pc, made, audited, lost, replies, erased, crashes>>
  BY DEF EraseFindings, history, WInv, TypeOK
<1>2. /\ \A r \in Requests : /\ held'[r].key = held[r].key /\ held'[r].reserved = held[r].reserved
                             /\ held'[r].effect = held[r].effect
      /\ held' \in [Requests -> [key : Keys \cup {<<>>}, reserved : Nat,
                                 effect : Effect \cup {NoEffect}, undercut : BOOLEAN]]
  BY <1>1 DEF WInv, HeldInv, Viewing
<1>3. TypeOK'
  BY <1>1, <1>2 DEF WInv, TypeOK
<1>4. HeldInv' /\ OwnersDiffer'
  BY <1>1, <1>2 DEF WInv, HeldInv, OwnersDiffer, Stands
<1>5. MadeInv' /\ ResponseInv'
  BY <1>1 DEF WInv, MadeInv, ResponseInv, Stands
<1>6. WritesAreAudited'
  <2>1. \A r \in Requests : pc'[r] = pc[r] /\ held'[r].effect = held[r].effect
    BY <1>1, <1>2
  <2>2. made' = made /\ audited' = audited /\ lost' = lost
    BY <1>1
  <2> QED
    BY <2>1, <2>2 DEF WInv, WritesAreAudited
<1> QED
  BY <1>3, <1>4, <1>5, <1>6 DEF WInv

LEMMA EraseKeysKeeps ==
  ASSUME WInv, NEW cutoff \in Moments, EraseKeys(cutoff)
  PROVE  WInv'
<1>1. /\ keys' = [k \in Keys |-> IF keys[k].created < cutoff THEN NoRow ELSE keys[k]]
      /\ erased' = erased \cup {k \in Keys : keys[k].status # "absent" /\ keys[k].created < cutoff}
      /\ erasing > 0 /\ erasing' = erasing - 1
      /\ UNCHANGED <<now, pc, held, made, audited, lost, replies, crashes, erasures>>
  BY DEF EraseKeys
<1>2. \A k \in Keys, t \in Moments : Stands(k, t) => Stands(k, t)'
  BY <1>1 DEF Stands
<1>3. TypeOK'
  BY <1>1 DEF WInv, TypeOK
<1>4. HeldInv' /\ OwnersDiffer'
  <2>1. \A r \in Requests : pc[r] \in Owning => held[r].key \in Keys
    BY DEF WInv, TypeOK, Owning
  <2> QED
    BY <2>1, <1>1, <1>2 DEF WInv, HeldInv, OwnersDiffer
<1>5. MadeInv'
  BY <1>1, <1>2, StandingKeeps DEF WInv, TypeOK, Moments
<1>6. ResponseInv' /\ WritesAreAudited'
  BY <1>1 DEF WInv, ResponseInv, WritesAreAudited, NoRow
<1> QED
  BY <1>3, <1>4, <1>5, <1>6 DEF WInv

LEMMA NextWInv ==
  ASSUME WInv, [Next]_vars
  PROVE  WInv'
<1>1. CASE UNCHANGED vars
  BY <1>1 DEF vars, WInv, TypeOK, HeldInv, OwnersDiffer, MadeInv, ResponseInv, WritesAreAudited, Stands
<1>2. CASE Next
  <2>1. ASSUME NEW cutoff \in Moments, EraseKeys(cutoff)
        PROVE  WInv'
    BY <2>1, EraseKeysKeeps
  <2>2. CASE RetentionSweep \/ DeleteTenant
    BY <2>1, <2>2 DEF RetentionSweep, DeleteTenant, WInv, TypeOK, Moments
  <2> QED
    BY <1>2, <2>2, ReserveKeeps, ReplayKeeps, WriteKeeps, RefuseKeeps, CompleteKeeps, AuditKeeps,
       CrashKeeps, EraseFindingsKeeps DEF Next
<1> QED
  BY <1>1, <1>2

-----------------------------------------------------------------------------
(* Writes, replies and reservations keep their types; a request past its reservation holds a *)
(* key, and one past its write holds a write that was committed.                             *)
THEOREM WritesTypeCorrect == Spec => []TypeOK
<1>1. WInv => TypeOK
  BY DEF WInv
<1> QED
  BY <1>1, InitWInv, NextWInv, PTL DEF Spec

(* However many requests repeat one key, and whichever of them die: a second write of one key *)
(* takes a deletion of its row and a reservation of its own.                                  *)
THEOREM OneWrite == Spec => []OneWritePerKey
<1>1. WInv => OneWritePerKey
  BY DEF WInv, MadeInv, Stands, OneWritePerKey
<1> QED
  BY <1>1, InitWInv, NextWInv, PTL DEF Spec

(* All who use a key are told of one write under it, until its row is deleted.               *)
THEOREM RepliesConsistent == Spec => []RepliesAgree
<1>1. WInv => RepliesAgree
  BY DEF WInv, TypeOK, MadeInv, ResponseInv, Stands, RepliesAgree
<1> QED
  BY <1>1, InitWInv, NextWInv, PTL DEF Spec

(* A write without an event has a request that will append one, died, or found its finding   *)
(* deleted.                                                                                  *)
THEOREM WritesAudited == Spec => []WritesAreAudited
<1>1. WInv => WritesAreAudited
  BY DEF WInv
<1> QED
  BY <1>1, InitWInv, NextWInv, PTL DEF Spec

-----------------------------------------------------------------------------
(* A reservation in progress *)

\* A reserved key has a request that is on its way to complete it.
InHand(k) == \E q \in Requests : pc[q] \in {"write", "complete"} /\ held[q].key = k

ProgressInv ==
  /\ \A k \in Keys : keys[k].status = "reserved" => InHand(k)
  /\ \A r \in Requests : ~held[r].undercut

LEMMA InitProgress == Init => ProgressInv
BY DEF Init, ProgressInv, NoRow, NothingHeld

\* A request that is not on its way moves; the others keep what they have in hand.
LEMMA BystanderKeeps ==
  ASSUME WInv, ProgressInv, NEW r \in Requests, pc[r] \notin {"write", "complete"},
         \A q \in Requests \ {r} : pc'[q] = pc[q] /\ held'[q] = held[q],
         ~held'[r].undercut, NEW k \in Keys,
         \A l \in Keys \ {k} : keys'[l].status = "reserved" => keys[l].status = "reserved",
         keys'[k].status = "reserved" =>
           \/ keys[k].status = "reserved"
           \/ pc'[r] = "write" /\ held'[r].key = k
  PROVE  ProgressInv'
<1>1. \A l \in Keys : InHand(l) => InHand(l)'
  BY DEF InHand
<1>2. keys'[k].status = "reserved" => InHand(k)'
  BY <1>1 DEF ProgressInv, InHand
<1>3. \A q \in Requests : ~held'[q].undercut
  BY DEF ProgressInv
<1> QED
  BY <1>1, <1>2, <1>3 DEF ProgressInv

LEMMA NextProgress ==
  ASSUME Refusing = {}, MaxCrashes = 0, WInv, ProgressInv, [Next]_vars
  PROVE  ProgressInv'
<1>0. /\ pc \in [Requests -> {"idle", "conflict", "write", "complete", "audit"}]
      /\ held \in [Requests -> [key : Keys \cup {<<>>}, reserved : Nat,
                                effect : Effect \cup {NoEffect}, undercut : BOOLEAN]]
      /\ keys \in [Keys -> Row \cup {NoRow}] /\ crashes \in Nat
  BY DEF WInv, TypeOK, HeldInv
<1>1. ASSUME NEW r \in Requests, NEW k \in Keys, Reserve(r, k) PROVE ProgressInv'
  <2> DEFINE mine(n) == [key |-> k, reserved |-> n, effect |-> NoEffect, undercut |-> FALSE]
  <2>1. pc[r] = "idle"
    BY <1>1 DEF Reserve
  <2>2. CASE Free(k)
    <3>1. /\ held' = [held EXCEPT ![r] = mine(now)] /\ pc' = [pc EXCEPT ![r] = "write"]
          /\ \A l \in Keys \ {k} : keys'[l] = keys[l]
      BY <1>0, <1>1, <2>2 DEF Reserve, Goto, NothingHeld
    <3>2. ~held'[r].undercut /\ held'[r].key = k /\ pc'[r] = "write"
      BY <1>0, <3>1
    <3>3. \A q \in Requests \ {r} : pc'[q] = pc[q] /\ held'[q] = held[q]
      BY <1>0, <3>1
    <3> QED
      BY <2>1, <3>1, <3>2, <3>3, BystanderKeeps
  <2>3. CASE ~Free(k)
    <3>1. /\ held' = [held EXCEPT ![r] = mine(0)] /\ pc' = [pc EXCEPT ![r] = "conflict"]
          /\ keys' = keys
      BY <1>1, <2>3 DEF Reserve, Goto, NothingHeld
    <3>2. ~held'[r].undercut
      BY <1>0, <3>1
    <3>3. \A q \in Requests \ {r} : pc'[q] = pc[q] /\ held'[q] = held[q]
      BY <1>0, <3>1
    <3> QED
      BY <2>1, <3>1, <3>2, <3>3, BystanderKeeps
  <2> QED
    BY <2>2, <2>3
<1>2. ASSUME NEW r \in Requests, Replay(r) \/ Audit(r) PROVE ProgressInv'
  <2>1. Leave(r) /\ keys' = keys /\ pc[r] \notin {"write", "complete"}
    BY <1>2 DEF Replay, Audit
  <2>2. /\ ~held'[r].undercut
        /\ \A q \in Requests \ {r} : pc'[q] = pc[q] /\ held'[q] = held[q]
    BY <1>0, <2>1 DEF Leave, Goto, NothingHeld
  <2>3. \A k \in Keys : InHand(k) => InHand(k)'
    BY <2>1, <2>2 DEF InHand
  <2> QED
    BY <2>1, <2>2, <2>3 DEF ProgressInv
<1>3. ASSUME NEW r \in Requests, Write(r) PROVE ProgressInv'
  <2>1. /\ keys' = keys /\ pc' = [pc EXCEPT ![r] = "complete"]
        /\ \E e : held' = [held EXCEPT ![r] = [held[r] EXCEPT !.effect = e]]
    BY <1>3 DEF Write, Goto
  <2>2. \A q \in Requests : /\ held'[q].key = held[q].key /\ held'[q].undercut = held[q].undercut
                            /\ pc'[q] = pc[q] \/ pc'[q] = "complete"
    BY <1>0, <2>1
  <2> QED
    BY <2>1, <2>2 DEF ProgressInv, InHand
<1>4. ASSUME NEW r \in Requests, Complete(r) PROVE ProgressInv'
  <2>1. /\ pc' = [pc EXCEPT ![r] = "audit"]
        /\ held' = [held EXCEPT ![r] = [held[r] EXCEPT !.undercut = FALSE]]
        /\ \A k \in Keys : k # held[r].key => keys'[k] = keys[k]
    BY <1>4 DEF Complete, Goto, SameKey
  <2>2. /\ \A q \in Requests : held'[q].key = held[q].key
        /\ \A q \in Requests \ {r} : pc'[q] = pc[q] /\ held'[q] = held[q]
        /\ ~held'[r].undercut
    BY <1>0, <2>1
  \* Whoever reserved it, the key is not reserved any more.
  <2>3. ASSUME NEW k \in Keys, k = held[r].key PROVE keys'[k].status # "reserved"
    <3>1. keys'[k] = IF Found(k) THEN Completed(keys[k], held[r].effect) ELSE keys[k]
      BY <1>4, <2>3 DEF Complete, SameKey
    <3>2. Found(k) => Completed(keys[k], held[r].effect).status = "completed"
      BY <1>0 DEF Completed, Row, NoRow
    <3> QED
      BY <3>1, <3>2 DEF Found
  <2>4. \A k \in Keys : k # held[r].key /\ InHand(k) => InHand(k)'
    BY <2>2 DEF InHand
  <2> QED
    BY <2>1, <2>2, <2>3, <2>4 DEF ProgressInv
<1>5. ASSUME NEW r \in Requests PROVE ~Refuse(r) /\ ~RefuseView(r) /\ ~Crash(r)
  BY <1>0 DEF Refuse, RefuseView, Crash, ProgressInv
<1>6. CASE EraseFindings
  <2>1. /\ \A q \in Requests : held'[q].key = held[q].key /\ ~held'[q].undercut
        /\ pc' = pc /\ keys' = keys
    BY <1>0, <1>6 DEF EraseFindings, Viewing
  <2> QED
    BY <2>1 DEF ProgressInv, InHand
<1>7. ASSUME NEW cutoff, EraseKeys(cutoff) PROVE ProgressInv'
  BY <1>7 DEF EraseKeys, NoRow, ProgressInv, InHand
<1>8. CASE UNCHANGED vars
  BY <1>8 DEF vars, ProgressInv, InHand
<1>9. CASE RetentionSweep \/ DeleteTenant
  BY <1>7, <1>9 DEF RetentionSweep, DeleteTenant
<1> QED
  BY <1>1, <1>2, <1>3, <1>4, <1>5, <1>6, <1>8, <1>9 DEF Next

(* "Write with this idempotency key is already in progress" is false only for want of a     *)
(* request that could finish it: one that was refused or died.  Where none is, what a       *)
(* repeat is told is true, whatever sweeps and deletions do to the keys meanwhile.          *)
THEOREM OnlyTheRefusedOrDeadStall ==
  ASSUME Refusing = {}, MaxCrashes = 0
  PROVE  Spec => []InProgressIsTrue
<1>1. WInv /\ ProgressInv /\ [Next]_vars => ProgressInv'
  BY NextProgress
<1>2. WInv /\ ProgressInv => InProgressIsTrue
  BY DEF WInv, TypeOK, ProgressInv, InHand, InProgressIsTrue
<1> QED
  BY <1>1, <1>2, InitWInv, NextWInv, InitProgress, PTL DEF Spec

-----------------------------------------------------------------------------
(* IdempotentWrites implements WriteOnce *)

\* The mapping sees of the state only these.
LEMMA Unseen ==
  ASSUME UNCHANGED <<now, keys, made, replies, erased>>
  PROVE  UNCHANGED Promise!vars
BY DEF Promise!vars

LEMMA InitMapped == Init => Promise!Init
BY DEF Init, Promise!Init, NoRow

LEMMA BeginMapped ==
  ASSUME WInv, NEW r \in Requests, NEW k \in Keys, Reserve(r, k)
  PROVE  Promise!Next \/ UNCHANGED Promise!vars
<1>1. CASE Free(k)
  <2>1. /\ keys[k] = NoRow /\ keys \in [Keys -> Row \cup {NoRow}]
    BY <1>1 DEF WInv, TypeOK, Free, Row
  <2>2. /\ keys' = [keys EXCEPT ![k] = [status |-> "reserved", created |-> now,
                                        response |-> NoEffect]]
        /\ now' = now + 1 /\ UNCHANGED <<made, replies, erased>>
    BY <1>1 DEF Reserve, history
  <2>3. [l \in Keys |-> keys'[l].created]
          = [[l \in Keys |-> keys[l].created] EXCEPT ![k] = now]
    BY <2>1, <2>2
  <2>4. Promise!Begin(k)
    BY <2>1, <2>2, <2>3 DEF Promise!Begin, NoRow
  <2> QED
    BY <2>4 DEF Promise!Next
<1>2. CASE ~Free(k)
  BY <1>2, Unseen DEF Reserve, history
<1> QED
  BY <1>1, <1>2

LEMMA PerformMapped ==
  ASSUME WInv, NEW r \in Requests, Write(r)
  PROVE  Promise!Next
<1>0. held[r].key \in Keys /\ held[r].reserved \in Moments /\ pc[r] = "write"
  BY DEF Write, WInv, TypeOK, HeldInv, Owning
<1> PICK k \in Keys, n \in Moments : k = held[r].key /\ n = held[r].reserved
  BY <1>0
<1> DEFINE e == [key |-> k, reserved |-> n, at |-> now]
<1>1. /\ n < now /\ Stands(k, n) /\ now \in Moments
      /\ \A f \in made : f.reserved # n
  BY <1>0 DEF WInv, TypeOK, HeldInv, Owning
<1>2. /\ now' = now + 1 /\ made' = made \cup {e}
      /\ UNCHANGED <<keys, replies, erased>>
  BY DEF Write
<1>3. e.key = k /\ e.reserved = n
  OBVIOUS
<1> HIDE DEF e
<1>4. {[key |-> f.key, life |-> f.reserved] : f \in made'}
        = {[key |-> f.key, life |-> f.reserved] : f \in made} \cup {[key |-> k, life |-> n]}
  BY <1>2, <1>3
<1>5. n \in Promise!MayWrite(k)
  <2>1. n \in 1..(now - 1) /\ n # 0
    BY <1>1 DEF Moments
  <2> QED
    BY <1>1, <2>1 DEF Stands, Promise!MayWrite
<1>6. Promise!Perform(k, n)
  BY <1>1, <1>2, <1>4 DEF Promise!Perform
<1> QED
  BY <1>1, <1>5, <1>6 DEF Promise!Next

\* A reply tells of a write that was committed under its key.
LEMMA TellMapped ==
  ASSUME WInv, NEW a, a.effect \in made, a.effect.key = a.key,
         replies' = replies \cup {a}, UNCHANGED <<now, keys, made, erased>>
  PROVE  Promise!Next
<1> DEFINE w == [key |-> a.key, life |-> a.effect.reserved]
<1>1. w \in {[key |-> e.key, life |-> e.reserved] : e \in made}
  OBVIOUS
<1>2. {[key |-> b.key, life |-> b.effect.reserved] : b \in replies'}
        = {[key |-> b.key, life |-> b.effect.reserved] : b \in replies} \cup {w}
  OBVIOUS
<1>3. Promise!Tell(w)
  BY <1>2 DEF Promise!Tell
<1> QED
  BY <1>1, <1>3 DEF Promise!Next

LEMMA EndMapped ==
  ASSUME WInv, NEW cutoff, EraseKeys(cutoff)
  PROVE  Promise!Next
<1> PICK S \in SUBSET Keys :
         S = {k \in Keys : keys[k].status # "absent" /\ keys[k].created < cutoff}
  OBVIOUS
<1>1. \A k \in Keys : /\ keys[k].status # "absent" => keys[k].created \in Moments
                      /\ keys[k].status = "absent" => keys[k].created = 0
  BY DEF WInv, TypeOK, Row, NoRow
<1>2. /\ keys' = [k \in Keys |-> IF keys[k].created < cutoff THEN NoRow ELSE keys[k]]
      /\ erased' = erased \cup S /\ UNCHANGED <<now, made, replies>>
  BY DEF EraseKeys
<1>3. \A k \in Keys : keys'[k].created = IF k \in S THEN 0 ELSE keys[k].created
  BY <1>1, <1>2 DEF NoRow
<1>4. \A k \in S : keys[k].created # 0
  BY <1>1 DEF Moments
<1>5. Promise!End(S)
  BY <1>2, <1>3, <1>4 DEF Promise!End
<1> QED
  BY <1>5 DEF Promise!Next

LEMMA NextMapped == WInv /\ [Next]_vars => [Promise!Next]_(Promise!vars)
<1> SUFFICES ASSUME WInv, [Next]_vars PROVE Promise!Next \/ UNCHANGED Promise!vars
  OBVIOUS
<1>1. ASSUME NEW r \in Requests, Replay(r) PROVE Promise!Next \/ UNCHANGED Promise!vars
  <2> DEFINE a == [key |-> held[r].key, effect |-> keys[held[r].key].response]
  <2>1. held[r].key \in Keys /\ UNCHANGED <<now, keys, made, erased>>
    BY <1>1 DEF Replay, WInv, TypeOK
  <2>2. CASE keys[held[r].key].response = NoEffect
    BY <1>1, <2>1, <2>2, Unseen DEF Replay
  <2>3. CASE keys[held[r].key].response # NoEffect
    <3>1. a.effect \in made /\ a.effect.key = a.key /\ replies' = replies \cup {a}
      BY <1>1, <2>1, <2>3 DEF Replay, WInv, ResponseInv
    <3> QED
      BY <2>1, <3>1, TellMapped
  <2> QED
    BY <2>2, <2>3
<1>2. ASSUME NEW r \in Requests, Audit(r) PROVE Promise!Next
  <2> DEFINE a == [key |-> held[r].key, effect |-> held[r].effect]
  <2>1. a.effect \in made /\ a.effect.key = a.key
    BY <1>2, EffectOfWritten DEF Audit, Written
  <2>2. replies' = replies \cup {a} /\ UNCHANGED <<now, keys, made, erased>>
    BY <1>2 DEF Audit
  <2> QED
    BY <2>1, <2>2, TellMapped
\* The UPDATE leaves created_at alone.
<1>3. ASSUME NEW r \in Requests, Complete(r) PROVE UNCHANGED Promise!vars
  <2>1. \A k \in Keys : keys'[k].created = keys[k].created
    <3>1. ASSUME NEW k \in Keys, NEW e PROVE Completed(keys[k], e).created = keys[k].created
      <4>1. keys[k] \in Row \cup {NoRow}
        BY DEF WInv, TypeOK
      <4> QED
        BY <4>1 DEF Completed, Row, NoRow
    <3> QED
      BY <1>3, <3>1 DEF Complete
  <2>2. UNCHANGED <<now, made, replies, erased>>
    BY <1>3 DEF Complete, history
  <2> QED
    BY <2>1, <2>2 DEF Promise!vars
<1>4. ASSUME NEW r \in Requests, Refuse(r) \/ RefuseView(r) \/ Crash(r)
      PROVE  UNCHANGED Promise!vars
  BY <1>4, Unseen DEF Refuse, RefuseView, Crash, history
<1>5. CASE EraseFindings \/ UNCHANGED vars
  BY <1>5, Unseen DEF EraseFindings, history, vars
<1>6. CASE RetentionSweep \/ DeleteTenant
  BY <1>6, EndMapped DEF RetentionSweep, DeleteTenant
<1> QED
  BY <1>1, <1>2, <1>3, <1>4, <1>5, <1>6, BeginMapped, PerformMapped DEF Next

(* Whatever requests, retries, crashes and erasures do, it amounts to keys with one life at  *)
(* a time, each written in at most once, and to replies that tell of those writes.           *)
THEOREM WriteOnceImplemented == Spec => ImplementsWriteOnce
<1> QED
  BY InitMapped, NextMapped, InitWInv, NextWInv, PTL DEF Spec, ImplementsWriteOnce, Promise!Spec
=============================================================================
