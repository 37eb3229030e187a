----------------------------- MODULE PushStore -----------------------------
(***************************************************************************)
(* The web push subscriptions (boddos/services/push.py): a table in memory *)
(* that the handlers on the event loop and the threads that deliver alarms *)
(* change and save without a lock.                                         *)
(*                                                                         *)
(* One request is handled at a time, but every alarm and every test sends  *)
(* its notifications in a thread of its own, and between two statements of *)
(* a thread anything else may run.  A save is three steps: json.dumps      *)
(* takes a copy of the table (in C, so nothing interleaves), write_text    *)
(* truncates the file, and the text is written from its beginning.  A      *)
(* subscription is its endpoint; a text is the set of endpoints in it.     *)
(***************************************************************************)
EXTENDS Naturals, FiniteSets

CONSTANTS
    Endpoints,      \* of the subscriptions the browsers hand out
    Threads,        \* the threads that deliver, as many as alarms at a time
    EventLoop,      \* the thread of the handlers
    Nobody,         \* no endpoint
    Garbage,        \* what a file that is not JSON holds
    Length,         \* the length of the text of a table
    MaxFailures,    \* bound on the saves that fail
    MaxRestarts     \* bound on the restarts of the node

Tables == SUBSET Endpoints
Actors == Threads \cup {EventLoop}
Unreadable == {Garbage}

ASSUME PushAssumption ==
    /\ EventLoop \notin Threads
    /\ Nobody \notin Endpoints
    /\ Garbage \notin Endpoints
    /\ Length \in [Tables -> Nat \ {0}]
    /\ {MaxFailures, MaxRestarts} \subseteq Nat

VARIABLES
    subs,       \* _subs
    file,       \* the store file: what it holds and how long it is
    step,       \* where each thread is
    text,       \* the text each thread is about to write
    target,     \* the endpoint each thread is busy with
    todo,       \* what is left of the snapshot that each alarm goes through
    expired,    \* the endpoints that the push service no longer knows
    failures,
    restarts,
    \* ghosts
    acked,      \* subscribed with an answer of ok since the last start
    owed,       \* the devices that each alarm has yet to try
    alone,      \* the saves under way that have met no other
    clean       \* the last save to end had met no other and did not fail

alarm == <<todo, owed>>
world == <<expired, failures, restarts>>
vars == <<subs, file, text, step, target, alarm, world, acked, alone, clean>>

\* The steps: none; waiting for the push service; before json.dumps; before the
\* file is truncated; before it is written.
Steps == {"idle", "push", "dump", "open", "write"}

TypeOK ==
    /\ subs \in Tables
    /\ file \in [holds : Tables \cup {Unreadable}, length : Nat]
    /\ step \in [Actors -> Steps]
    /\ text \in [Actors -> Tables]
    /\ target \in [Actors -> Endpoints \cup {Nobody}]
    /\ todo \in [Threads -> Tables]
    /\ expired \in Tables
    /\ failures \in Nat
    /\ restarts \in Nat
    /\ acked \in Tables
    /\ owed \in [Threads -> Tables]
    /\ alone \in SUBSET Actors
    /\ clean \in BOOLEAN

Init ==
    /\ subs = {}
    /\ file = [holds |-> {}, length |-> 0]
    /\ step = [a \in Actors |-> "idle"]
    /\ text = [a \in Actors |-> {}]
    /\ target = [a \in Actors |-> Nobody]
    /\ todo = [w \in Threads |-> {}]
    /\ expired = {}
    /\ failures = 0
    /\ restarts = 0
    /\ acked = {}
    /\ owed = [w \in Threads |-> {}]
    /\ alone = {}
    /\ clean = TRUE
-----------------------------------------------------------------------------
Saving(a) == step[a] \in {"dump", "open", "write"}

\* The thread has changed the table and is about to save it.
StartSave(a) ==
    /\ step' = [step EXCEPT ![a] = "dump"]
    /\ alone' = IF \E b \in Actors \ {a} : Saving(b) THEN {} ELSE {a}

\* POST /api/push/subscribe, by a browser that has just been given the endpoint
Subscribe(e) ==
    /\ step[EventLoop] = "idle"
    /\ e \notin expired
    /\ subs' = subs \cup {e}
    /\ target' = [target EXCEPT ![EventLoop] = e]
    /\ StartSave(EventLoop)
    /\ UNCHANGED <<file, text, alarm, world, acked, clean>>

\* Mutant of Unsubscribe: what was not in the table is not saved, nor is what was.
UnsubscribeUnsaved(e) ==
    /\ step[EventLoop] = "idle"
    /\ subs' = subs \ {e}
    /\ acked' = acked \ {e}
    /\ UNCHANGED <<file, text, step, target, alarm, world, alone, clean>>

\* POST /api/push/unsubscribe, for any endpoint
Unsubscribe(e) ==
    /\ step[EventLoop] = "idle"
    /\ subs' = subs \ {e}
    /\ acked' = acked \ {e}
    /\ StartSave(EventLoop)
    /\ UNCHANGED <<file, text, target, alarm, world, clean>>

\* notify_all begins in a thread of the pool, with a copy of the table's items.
NotifyAll(w) ==
    /\ step[w] = "idle"
    /\ subs # {}
    /\ step' = [step EXCEPT ![w] = "push"]
    /\ todo' = [todo EXCEPT ![w] = subs]
    /\ owed' = [owed EXCEPT ![w] = acked \ expired]
    /\ UNCHANGED <<subs, file, text, target, world, acked, alone, clean>>

\* The thread is done with a subscription, and returns after the last one.
GoOn(w, e) ==
    /\ todo' = [todo EXCEPT ![w] = @ \ {e}]
    /\ owed' = [owed EXCEPT ![w] = @ \ {e}]
    /\ step' = [step EXCEPT ![w] = IF todo[w] \subseteq {e} THEN "idle" ELSE "push"]

\* An exception leaves notify_all, and whoever raised the alarm gets it.
Abort(w) ==
    /\ todo' = [todo EXCEPT ![w] = {}]
    /\ owed' = [owed EXCEPT ![w] = {}]
    /\ step' = [step EXCEPT ![w] = "idle"]

\* Mutant of Answer: a subscription that is gone ends the loop.
AnswerBreaks(w, e) ==
    /\ step[w] = "push"
    /\ e \in todo[w]
    /\ \/ GoOn(w, e)
       \/ /\ e \in expired
          /\ todo' = [todo EXCEPT ![w] = {}]
          /\ step' = [step EXCEPT ![w] = "idle"]
          /\ UNCHANGED owed
    /\ UNCHANGED <<subs, file, text, target, world, acked, alone, clean>>

\* Mutant of Prune: the table is replaced by what is left of the snapshot.
PruneRebuilds(w, e) ==
    /\ subs' = todo[w] \ {e}
    /\ target' = [target EXCEPT ![w] = e]
    /\ StartSave(w)

\* 404 or 410: the handler of the exception drops the subscription and saves.  In
\* between nothing else can matter: nobody subscribes to what has expired.
Prune(w, e) ==
    /\ subs' = subs \ {e}
    /\ target' = [target EXCEPT ![w] = e]
    /\ StartSave(w)

\* The push service has answered for one of the subscriptions that are left, by
\* delivering or failing, or because it no longer knows the endpoint.
Answer(w, e) ==
    /\ step[w] = "push"
    /\ e \in todo[w]
    /\ \/ GoOn(w, e) /\ UNCHANGED <<subs, target, alone>>
       \/ e \in expired /\ Prune(w, e) /\ UNCHANGED alarm
    /\ UNCHANGED <<file, text, world, acked, clean>>

\* json.dumps(self._subs)
Dump(a) ==
    /\ step[a] = "dump"
    /\ text' = [text EXCEPT ![a] = subs]
    /\ step' = [step EXCEPT ![a] = "open"]
    /\ UNCHANGED <<subs, file, target, alarm, world, acked, alone, clean>>

\* open(..., "w")
Open(a) ==
    /\ step[a] = "open"
    /\ file' = [holds |-> Unreadable, length |-> 0]
    /\ step' = [step EXCEPT ![a] = "write"]
    /\ UNCHANGED <<subs, text, target, alarm, world, acked, alone, clean>>

\* The text replaces the beginning of what another save has put there meanwhile;
\* if that is longer, its end is left behind the text.
Overwritten(s) ==
    IF Length[s] >= file.length
    THEN [holds |-> s, length |-> Length[s]]
    ELSE [holds |-> Unreadable, length |-> file.length]

\* The save is over, well or not.
EndSave(a, ok) ==
    /\ text' = [text EXCEPT ![a] = {}]
    /\ target' = [target EXCEPT ![a] = Nobody]
    /\ clean' = (ok /\ a \in alone)
    /\ alone' = alone \ {a}

\* Mutant of Write: the dropped subscription is still to be tried.
WriteRetries(a) ==
    /\ step[a] = "write"
    /\ file' = Overwritten(text[a])
    /\ EndSave(a, TRUE)
    /\ step' = [step EXCEPT ![a] = IF a = EventLoop THEN "idle" ELSE "push"]
    /\ acked' = acked \cup IF a = EventLoop THEN {target[a]} \ {Nobody} ELSE {}
    /\ UNCHANGED <<subs, alarm, world>>

\* write() and close(); a subscription is acknowledged, an alarm goes on.
Write(a) ==
    /\ step[a] = "write"
    /\ file' = Overwritten(text[a])
    /\ EndSave(a, TRUE)
    /\ \/ /\ a = EventLoop
          /\ step' = [step EXCEPT ![a] = "idle"]
          /\ acked' = acked \cup ({target[a]} \ {Nobody})
          /\ UNCHANGED alarm
       \/ /\ a \in Threads
          /\ GoOn(a, target[a])
          /\ UNCHANGED acked
    /\ UNCHANGED <<subs, world>>

\* The file cannot be opened, or is truncated and the disk is full.
SaveFails(a) ==
    /\ step[a] \in {"open", "write"}
    /\ failures < MaxFailures
    /\ failures' = failures + 1
    /\ EndSave(a, FALSE)
    /\ \/ /\ a = EventLoop
          /\ step' = [step EXCEPT ![a] = "idle"]
          /\ UNCHANGED alarm
       \/ /\ a \in Threads
          /\ Abort(a)
    /\ UNCHANGED <<subs, file, expired, restarts, acked>>

\* A browser or its push service gives an endpoint up.
Expire(e) ==
    /\ e \notin expired
    /\ expired' = expired \cup {e}
    /\ UNCHANGED <<subs, file, text, step, target, alarm, failures, restarts, acked, alone, clean>>

\* _load: a file that cannot be read is an empty table.
Loaded == IF file.holds = Unreadable THEN {} ELSE file.holds

\* The process ends anywhere and starts again.
Restart ==
    /\ restarts < MaxRestarts
    /\ restarts' = restarts + 1
    /\ subs' = Loaded
    /\ step' = [a \in Actors |-> "idle"]
    /\ text' = [a \in Actors |-> {}]
    /\ target' = [a \in Actors |-> Nobody]
    /\ todo' = [w \in Threads |-> {}]
    /\ owed' = [w \in Threads |-> {}]
    /\ acked' = {}
    /\ alone' = {}
    /\ clean' = TRUE
    /\ UNCHANGED <<file, expired, failures>>

Save(a) == Dump(a) \/ Open(a) \/ Write(a)
NotifyDevices(w) == (\E e \in Endpoints : Answer(w, e)) \/ Save(w)

Next ==
    \/ \E e \in Endpoints : Subscribe(e) \/ Unsubscribe(e) \/ Expire(e)
    \/ \E w \in Threads : NotifyAll(w) \/ NotifyDevices(w)
    \/ Save(EventLoop)
    \/ \E a \in Actors : SaveFails(a)
    \/ Restart

\* A thread that can go on does.  That the push service answers is assumed:
\* webpush() is called without a timeout.
Spec == Init /\ [][Next]_vars /\ \A w \in Threads : WF_vars(NotifyDevices(w))
-----------------------------------------------------------------------------
\* A device that was told "ok" is in the table until it unsubscribes or its
\* endpoint is given up, however the threads prune and save meanwhile.
AckedIsKept == acked \subseteq subs \cup expired

\* notify_all returns only when it has tried every device that had been told "ok"
\* when the alarm was raised: neither a service that fails, nor what others prune
\* meanwhile, nor a dead device keeps the alarm from the next one.
EveryoneIsOwed == \A w \in Threads : step[w] = "idle" => owed[w] = {}

\* Saves that do not overlap leave in the file what a restart needs: when nothing
\* is under way and the last save met no other and did not fail, the file is the
\* table.
SavedUnlessRaced ==
    clean /\ (\A a \in Actors : ~ Saving(a)) => Loaded = subs

\* Every device that had been told "ok" when an alarm was raised is tried in the
\* end, unless a save raises or the process ends.
EveryoneIsTried ==
    \A w \in Threads, e \in Endpoints : e \in owed[w] ~> e \notin owed[w]
-----------------------------------------------------------------------------
\* The inductive strengthening of AckedIsKept: what is about to be acknowledged is
\* in the table as well.
AckInv ==
    /\ AckedIsKept
    /\ target[EventLoop] \in subs \cup expired \cup {Nobody}
    /\ step[EventLoop] = "idle" => target[EventLoop] = Nobody

\* ... of EveryoneIsOwed: what an alarm owes is left to be tried.
OweInv ==
    \A w \in Threads :
        /\ owed[w] \subseteq todo[w]
        /\ step[w] = "idle" => todo[w] = {}

\* ... and of SavedUnlessRaced: a save that has met no other has the table as it
\* is, and the file to itself.
SaveInv ==
    /\ SavedUnlessRaced
    /\ \A a \in alone :
          /\ Saving(a)
          /\ \A b \in Actors : Saving(b) => b = a
          /\ step[a] \in {"open", "write"} => text[a] = subs
          /\ step[a] = "write" => file.length = 0
=============================================================================
