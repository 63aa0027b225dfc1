----------------------------- MODULE ReaderDemand -----------------------------
(***************************************************************************)
(* When the engine publishes the snapshot that `.stats` files are rendered *)
(* from (engine.rs, engine_loop): at once after a command that changes     *)
(* what is shown, and every second while somebody is looking.  A look is   *)
(* counted, and the engine, which sees the count at the top of its loop    *)
(* only, keeps publishing for a while after it changed.                    *)
(*                                                                         *)
(* Time is counted in ticks; the engine ends a wait when it is over.  An   *)
(* age stops where it no longer matters.                                   *)
(***************************************************************************)
EXTENDS Integers

CONSTANTS SNAPSHOT_INTERVAL, READER_DEMAND_TTL

ASSUME DemandAssumption ==
  /\ SNAPSHOT_INTERVAL \in Nat \ {0} /\ READER_DEMAND_TTL \in Nat
  /\ READER_DEMAND_TTL >= 2 * SNAPSHOT_INTERVAL

VARIABLES
  unseen,   \* reader_demand has changed since the engine last looked at it
  until,    \* what is left of the window a look has opened
  turn,     \* the engine loop: time in recv_timeout, is_watched, last_publish
  parked,   \* whether a read is parked, so that the loop polls faster
  age,      \* of the snapshot
  watch     \* history: ticks since the last look, and of looking regularly

demandVars == <<unseen, until, turn, parked, age, watch>>

Late == READER_DEMAND_TTL + 1
Longer(x, bound) == IF x < bound THEN x + 1 ELSE x

reader_demand_is_live(left) == left > 0

advance_reader_demand(changed, left) == IF changed THEN READER_DEMAND_TTL ELSE left

\* The top of the loop.
refresh_reader_demand(published) ==
  /\ unseen' = FALSE
  /\ until' = advance_reader_demand(unseen, until)
  /\ turn' = [waited |-> 0, is_watched |-> reader_demand_is_live(until'), published |-> published]

should_publish_after_command(is_read, is_watched, since) ==
  ~is_read \/ (is_watched /\ since >= SNAPSHOT_INTERVAL)

\* Mutant: the loop publishes when it is idle, never after a read command.
ServeIdleOnly(event) ==
  LET due == \/ event = "command"
             \/ event = "timeout" /\ turn.is_watched /\ turn.published >= SNAPSHOT_INTERVAL
  IN age' = (IF due THEN 0 ELSE age)
     /\ refresh_reader_demand(IF due THEN 0 ELSE turn.published)

\* A turn of the loop: after a read command and after a timeout the same has
\* to hold for it to publish.  A publish from inside a read, while it waits
\* for peers, does not count as the loop's own.
Serve(event) ==
  LET due == should_publish_after_command(event # "command", turn.is_watched, turn.published)
  IN /\ \/ age' = IF due THEN 0 ELSE age
        \/ parked /\ age' = 0
     /\ refresh_reader_demand(IF due THEN 0 ELSE turn.published)

engine_loop ==
  /\ \/ Serve("command") /\ parked' = parked
     \/ Serve("read") /\ parked' \in BOOLEAN
     \/ /\ turn.waited = SNAPSHOT_INTERVAL \/ parked
        /\ Serve("timeout") /\ parked' \in {parked, FALSE}
  /\ UNCHANGED watch

\* The look itself may find the snapshot locked; it counts all the same.
mark_reader_demand ==
  /\ unseen' = TRUE
  /\ watch' = [watch EXCEPT !.idle = 0]
  /\ UNCHANGED <<until, turn, parked, age>>

DemandTick ==
  /\ turn.waited < SNAPSHOT_INTERVAL
  /\ turn' = [turn EXCEPT !.waited = @ + 1, !.published = Longer(@, SNAPSHOT_INTERVAL)]
  /\ until' = IF until > 0 THEN until - 1 ELSE 0
  /\ age' = Longer(age, Late)
  /\ watch' = LET idle == Longer(watch.idle, Late)
              IN [idle |-> idle,
                  steady |-> IF idle > SNAPSHOT_INTERVAL THEN 0 ELSE Longer(watch.steady, Late)]
  /\ UNCHANGED <<unseen, parked>>

DemandInit ==
  /\ unseen = FALSE /\ until = 0 /\ parked = FALSE /\ age = 0
  /\ turn = [waited |-> 0, is_watched |-> FALSE, published |-> 0]
  /\ watch = [idle |-> Late, steady |-> 0]

DemandNext == engine_loop \/ mark_reader_demand \/ DemandTick

DemandSpec == DemandInit /\ [][DemandNext]_demandVars

-----------------------------------------------------------------------------
(* A reader who looks once per SNAPSHOT_INTERVAL or more often, and has     *)
(* done so for more than two intervals, finds a snapshot less than two      *)
(* intervals old: the window a look opens lasts until the engine has seen   *)
(* the next one, and commands in a row, each of which restarts the wait,    *)
(* do not keep the engine from publishing (engine.rs, engine_loop).         *)
WatcherSeesFresh ==
  watch.steady > 2 * SNAPSHOT_INTERVAL => age < 2 * SNAPSHOT_INTERVAL

=============================================================================
