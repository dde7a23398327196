------------------------------- MODULE Alarms -------------------------------
(***************************************************************************)
(* What the timer manager promises to its callers (jetnet_timer.h), with   *)
(* no heap, no tree and no item: a set of alarms by identifier.  A round   *)
(* of jetnet_timer_mgr_update serves every alarm that was due when it      *)
(* began, each once, in any order, unless it is killed first.              *)
(***************************************************************************)
EXTENDS Naturals, Functions

CONSTANT Timing

VARIABLES
  alarm,      \* the alarms: when due, what period, how many rings left
  round,      \* the due alarms this round has still to serve
  ringing,    \* the alarm whose callback runs, or 0
  clock       \* the time a round sees

avars == <<alarm, round, ringing, clock>>

AInit ==
  /\ alarm = [id \in {} |-> 0]
  /\ round = {}
  /\ ringing = 0
  /\ clock = 0

Without(id) == Restrict(alarm, DOMAIN alarm \ {id})

\* A first delay comes before the first period, and does not ring.
Set(id) ==
  /\ \E t \in Timing :
       LET due == clock + IF t.delay > 0 THEN t.delay ELSE t.period
           new == [due |-> due, delay |-> t.delay, period |-> t.period,
                   repeat |-> t.repeat]
       IN alarm' = [i \in DOMAIN alarm \cup {id} |-> IF i = id THEN new ELSE alarm[i]]
  /\ UNCHANGED <<round, ringing, clock>>

\* An alarm that is killed never rings again, not even in this round.
Unset(id) ==
  /\ alarm' = Without(id)
  /\ round' = round \ {id}
  /\ UNCHANGED <<ringing, clock>>

BeginRound ==
  /\ round = {} /\ ringing = 0
  /\ round' = {id \in DOMAIN alarm : alarm[id].due <= clock}
  /\ UNCHANGED <<alarm, ringing, clock>>

Delayed(id) ==
  /\ ringing = 0 /\ id \in round /\ alarm[id].delay > 0
  /\ alarm' = [alarm EXCEPT ![id].delay = 0,
                            ![id].due = clock + alarm[id].period]
  /\ round' = round \ {id}
  /\ UNCHANGED <<ringing, clock>>

Ring(id) ==
  /\ ringing = 0 /\ id \in round /\ alarm[id].delay = 0
  /\ ringing' = id
  /\ round' = round \ {id}
  /\ UNCHANGED <<alarm, clock>>

\* After its callback an alarm rings again a period later, or is over.
Silence ==
  /\ ringing # 0
  /\ ringing' = 0
  /\ IF ringing \notin DOMAIN alarm THEN alarm' = alarm
     ELSE LET a == alarm[ringing] IN
          alarm' = IF a.repeat = 1 THEN Without(ringing)
                   ELSE [alarm EXCEPT
                           ![ringing].due = clock + a.period,
                           ![ringing].repeat = IF @ = 0 THEN 0 ELSE @ - 1]
  /\ UNCHANGED <<round, clock>>

Pass ==
  /\ round = {} /\ ringing = 0
  /\ clock' > clock
  /\ UNCHANGED <<alarm, round, ringing>>

\* jetnet_timer_mgr_release, never called from a callback.
Clear ==
  /\ round = {} /\ ringing = 0
  /\ alarm' = [id \in {} |-> 0]
  /\ UNCHANGED <<round, ringing, clock>>

ANext ==
  \/ \E id \in DOMAIN alarm' \ DOMAIN alarm : Set(id)
  \/ \E id \in DOMAIN alarm : Unset(id) \/ Delayed(id) \/ Ring(id)
  \/ BeginRound \/ Silence \/ Pass \/ Clear

SafeSpec == AInit /\ [][ANext]_avars
=============================================================================
