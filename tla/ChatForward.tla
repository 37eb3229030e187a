---------------------------- MODULE ChatForward ----------------------------
(***************************************************************************)
(* How a chat request is served: api_chat and api_chat_stream of           *)
(* boddos/api/server.py with the routing of boddos/mesh/router.py.         *)
(*                                                                         *)
(* A node that does not have the model forwards the request, with the      *)
(* header X-Boddos-Forwarded, to the peer that its registry shows as the   *)
(* most capable; if that fails it answers itself.  What a node knows of    *)
(* its own models and of its peers is as old as the last heartbeats.       *)
(* Nodes crash, hang (the connections stay open) and come back, and        *)
(* connections break.                                                      *)
(*                                                                         *)
(* A whole reply is Chunks lines; a model server that breaks off leaves     *)
(* fewer and the text of an error.  The lines of a stream that the client   *)
(* has got are kept, also when it leaves.                                  *)
(***************************************************************************)
EXTENDS Integers, Sequences, FiniteSets, SequencesExt

CONSTANTS
    Nodes,
    Hosts,          \* the nodes whose role is "host"
    Guarded,        \* the nodes with require_auth: they refuse what has no token
    Capacity,       \* the order of the nodes by GPU and RAM
    Models,
    Requests,
    Chunks,         \* the lines of a reply
    Nobody,         \* no node is named
    MaxFails        \* bound on the crashes and hangs

ASSUME ChatAssumption ==
    /\ Hosts \subseteq Nodes
    /\ Guarded \subseteq Nodes
    /\ Capacity \in [Nodes -> Nat]
    /\ Chunks \in Nat \ {0}
    /\ Nobody \notin Nodes
    /\ MaxFails \in Nat

VARIABLES
    cond,       \* the condition of each node
    fails,      \* crashes and hangs so far
    local,      \* local_models of each node
    alive,      \* the peers of each node that its registry lists
    view,       \* ... and the models it has of them
    kind,       \* of each request: one answer, or a stream
    model,      \* the model it asks for
    hops,       \* the nodes that handle it: the last works, the others wait for it
    peer,       \* the node it is being sent to
    phase,      \* where the last node is with it
    lines       \* what the client has got

nodes == <<cond, fails>>
knowledge == <<local, alive, view>>
vars == <<nodes, knowledge, kind, model, hops, peer, phase, lines>>

Line == [type : {"t", "note", "junk", "done"}, by : Nodes \cup {Nobody}, nr : 0 .. Chunks]

Text(n, i) == [type |-> "t", by |-> n, nr |-> i]
Fault(n) == Text(n, 0)      \* "[model unavailable: ...]"
Note == [type |-> "note", by |-> Nobody, nr |-> 0]
Junk == [type |-> "junk", by |-> Nobody, nr |-> 0]
Done(n) == [type |-> "done", by |-> n, nr |-> 0]

Phases == {"new", "routing", "sending", "answering", "instead", "closing", "failed",
           "ended", "lost"}

TypeOK ==
    /\ cond \in [Nodes -> {"up", "hung", "down"}]
    /\ fails \in 0 .. MaxFails
    /\ local \in [Nodes -> SUBSET Models]
    /\ alive \in [Nodes -> SUBSET Nodes]
    /\ view \in [Nodes -> [Nodes -> SUBSET Models]]
    /\ kind \in [Requests -> {"once", "stream"}]
    /\ model \in [Requests -> Models]
    /\ hops \in [Requests -> Seq(Nodes)]
    /\ peer \in [Requests -> Nodes \cup {Nobody}]
    /\ phase \in [Requests -> Phases]
    /\ lines \in [Requests -> Seq(Line)]
    /\ \A r \in Requests : /\ phase[r] = "sending" => peer[r] \in Nodes \ {Last(hops[r])}
                           /\ phase[r] # "new" => hops[r] # <<>>

Init ==
    /\ cond = [n \in Nodes |-> "up"]
    /\ fails = 0
    /\ local = [n \in Nodes |-> {}]
    /\ alive = [n \in Nodes |-> {}]
    /\ view = [n \in Nodes |-> [m \in Nodes |-> {}]]
    /\ kind \in [Requests -> {"once", "stream"}]
    /\ model \in [Requests -> Models]
    /\ hops = [r \in Requests |-> <<>>]
    /\ peer = [r \in Requests |-> Nobody]
    /\ phase = [r \in Requests |-> "new"]
    /\ lines = [r \in Requests |-> <<>>]
-----------------------------------------------------------------------------
\* Of the registries: the models of a node are refreshed, ...
Refresh(n, S) ==
    /\ cond[n] = "up"
    /\ local' = [local EXCEPT ![n] = S]
    /\ UNCHANGED <<nodes, alive, view, kind, model, hops, peer, phase, lines>>

\* ... it greets a peer, ...
Greet(n, m) ==
    /\ n # m
    /\ cond[n] = "up" /\ cond[m] = "up"
    /\ alive' = [alive EXCEPT ![m] = @ \cup {n}]
    /\ view' = [view EXCEPT ![m][n] = local[n]]
    /\ UNCHANGED <<nodes, local, kind, model, hops, peer, phase, lines>>

\* ... and is not heard of for longer than the time to live.
AgeOut(m, n) ==
    /\ n \in alive[m]
    /\ alive' = [alive EXCEPT ![m] = @ \ {n}]
    /\ view' = [view EXCEPT ![m][n] = {}]
    /\ UNCHANGED <<nodes, local, kind, model, hops, peer, phase, lines>>

\* select_model_node: where n may have model x served.
Best(pool) == {p \in pool : \A q \in pool : Capacity[p] >= Capacity[q]}

Target(n, x) ==
    LET candidates == alive[n] \cap Hosts
        have == {p \in candidates : x \in view[n][p]}
        pool == IF have # {} THEN have ELSE candidates
    IN  IF x \in local[n] \/ pool = {} THEN {n} ELSE Best(pool)
-----------------------------------------------------------------------------
SetPhase(r, p) == phase' = [phase EXCEPT ![r] = p]
Sent(r, line) == lines' = [lines EXCEPT ![r] = Append(@, line)]
AllUp(r) == \A i \in DOMAIN hops[r] : cond[hops[r][i]] = "up"

\* A client asks a node, with its token.
Ask(r, n) ==
    /\ phase[r] = "new"
    /\ cond[n] = "up"
    /\ hops' = [hops EXCEPT ![r] = <<n>>]
    /\ SetPhase(r, "routing")
    /\ UNCHANGED <<nodes, knowledge, kind, model, peer, lines>>

\* Mutant of Route: what was forwarded is forwarded again.
RouteOn(r) ==
    /\ phase[r] = "routing"
    /\ cond[Last(hops[r])] = "up"
    /\ \E t \in Target(Last(hops[r]), model[r]) :
          \/ t = Last(hops[r]) /\ SetPhase(r, "answering") /\ UNCHANGED peer
          \/ t # Last(hops[r]) /\ SetPhase(r, "sending") /\ peer' = [peer EXCEPT ![r] = t]
    /\ UNCHANGED <<nodes, knowledge, kind, model, hops, lines>>

\* The handler picks the target; only what was not forwarded goes to another node.
Route(r) ==
    /\ phase[r] = "routing"
    /\ cond[Last(hops[r])] = "up"
    /\ \E t \in Target(Last(hops[r]), model[r]) :
          IF t # Last(hops[r]) /\ Len(hops[r]) = 1
          THEN SetPhase(r, "sending") /\ peer' = [peer EXCEPT ![r] = t]
          ELSE SetPhase(r, "answering") /\ UNCHANGED peer
    /\ UNCHANGED <<nodes, knowledge, kind, model, hops, lines>>

\* The peer's guard lets the forwarded request in.
Accept(r) ==
    /\ phase[r] = "sending"
    /\ cond[peer[r]] = "up"
    /\ peer[r] \notin Guarded
    /\ hops' = [hops EXCEPT ![r] = Append(@, peer[r])]
    /\ SetPhase(r, "routing")
    /\ UNCHANGED <<nodes, knowledge, kind, model, peer, lines>>

\* The peer's guard refuses it, for want of a token or because it is busy.  That is
\* an error for api_chat; api_chat_stream hands the refusal on as it is.
Refuse(r) ==
    /\ phase[r] = "sending"
    /\ cond[peer[r]] = "up"
    /\ \/ kind[r] = "once" /\ SetPhase(r, "failed") /\ UNCHANGED lines
       \/ kind[r] = "stream" /\ SetPhase(r, "closing") /\ Sent(r, Junk)
    /\ UNCHANGED <<nodes, knowledge, kind, model, hops, peer>>

\* A node has a peer's connection, but not a peer that handles the request, ...
Attached(r) == \/ phase[r] = "sending"
               \/ phase[r] = "closing" /\ Last(lines[r]) = Junk
\* ... or it waits for one that does.
Waits(r) == \/ Attached(r)
            \/ Len(hops[r]) > 1 /\ phase[r] \in {"routing", "answering", "closing"}
\* The nodes that are left when the last peer drops out.
Kept(r) == IF Attached(r) THEN hops[r] ELSE Front(hops[r])

Dropped(r) ==
    /\ hops' = [hops EXCEPT ![r] = Kept(r)]
    /\ SetPhase(r, "failed")
    /\ UNCHANGED <<nodes, knowledge, kind, model, peer, lines>>

\* Mutant of TimeOut: it ends with the connection being made.
TimeOutConnect(r) == kind[r] = "once" /\ phase[r] = "sending" /\ Dropped(r)

\* The 180 seconds of api_chat are over; api_chat_stream waits without a limit.
TimeOut(r) == kind[r] = "once" /\ Waits(r) /\ Dropped(r)

\* The connection to the peer breaks, even after the last line.
Break(r) == Waits(r) /\ Dropped(r)

\* Mutant of Fallback: nothing tells the client.
FallbackSilent(r) ==
    /\ phase[r] = "failed"
    /\ AllUp(r)
    /\ SetPhase(r, "instead")
    /\ UNCHANGED <<nodes, knowledge, kind, model, hops, peer, lines>>

\* The exception: the node answers itself.
Fallback(r) ==
    /\ phase[r] = "failed"
    /\ AllUp(r)
    /\ SetPhase(r, "instead")
    /\ IF kind[r] = "stream" THEN Sent(r, Note) ELSE UNCHANGED lines
    /\ UNCHANGED <<nodes, knowledge, kind, model, hops, peer>>

AtWork(r) == phase[r] \in {"answering", "instead"} /\ AllUp(r)

\* Mutant of Answer: the answer bears the name of the node that was asked.
AnswerHere(r) ==
    /\ AtWork(r)
    /\ kind[r] = "once"
    /\ lines' = [lines EXCEPT ![r] = <<Text(Last(hops[r]), 1), Done(Head(hops[r]))>>]
    /\ SetPhase(r, "ended")
    /\ UNCHANGED <<nodes, knowledge, kind, model, hops, peer>>

\* api_chat: the reply, served_by the target it was sent to, or the node itself.
Answer(r) ==
    /\ AtWork(r)
    /\ kind[r] = "once"
    /\ lines' = [lines EXCEPT ![r] =
                   <<Text(Last(hops[r]), 1),
                     Done(IF Len(hops[r]) = 1 THEN Head(hops[r]) ELSE hops[r][2])>>]
    /\ SetPhase(r, "ended")
    /\ UNCHANGED <<nodes, knowledge, kind, model, hops, peer>>

\* How many lines the client has got since the last note.
SinceNote(s) == Cardinality({j \in DOMAIN s : \A k \in j .. Len(s) : s[k] # Note})

\* The last line is the text of an error.
Faulty(s) == s # <<>> /\ Last(s).type = "t" /\ Last(s).nr = 0

\* api_chat_stream: the next line, ...
Stream(r) ==
    /\ AtWork(r)
    /\ kind[r] = "stream"
    /\ LET n == SinceNote(lines[r]) IN
          /\ n < Chunks /\ ~ Faulty(lines[r])
          /\ Sent(r, Text(Last(hops[r]), n + 1))
    /\ UNCHANGED <<nodes, knowledge, kind, model, hops, peer, phase>>

\* ... the text of an error, if the model server refuses or breaks off, which the
\* adapter makes of the exception, ...
ModelFails(r) ==
    /\ AtWork(r)
    /\ kind[r] = "stream"
    /\ ~ Faulty(lines[r])
    /\ Sent(r, Fault(Last(hops[r])))
    /\ UNCHANGED <<nodes, knowledge, kind, model, hops, peer, phase>>

\* ... the last one, which names no node if the peer has failed, ...
Finish(r) ==
    /\ AtWork(r)
    /\ kind[r] = "stream"
    /\ SinceNote(lines[r]) >= Chunks \/ Faulty(lines[r])
    /\ Sent(r, Done(IF phase[r] = "instead" THEN Nobody ELSE Last(hops[r])))
    /\ SetPhase(r, "closing")
    /\ UNCHANGED <<nodes, knowledge, kind, model, hops, peer>>

\* ... and the end of the response.
Close(r) ==
    /\ phase[r] = "closing"
    /\ AllUp(r)
    /\ SetPhase(r, "ended")
    /\ UNCHANGED <<nodes, knowledge, kind, model, hops, peer, lines>>
-----------------------------------------------------------------------------
\* A node crashes: its clients lose their requests, a node that waits for it is told.
Crash(n) ==
    /\ cond[n] # "down"
    /\ fails < MaxFails
    /\ fails' = fails + 1
    /\ cond' = [cond EXCEPT ![n] = "down"]
    /\ local' = [local EXCEPT ![n] = {}]
    /\ alive' = [alive EXCEPT ![n] = {}]
    /\ view' = [view EXCEPT ![n] = [m \in Nodes |-> {}]]
    /\ LET At(r, i) == phase[r] \notin {"ended", "lost"} /\ hops[r][i] = n
           Behind(r) == \E i \in 2 .. Len(hops[r]) : At(r, i)
       IN  /\ phase' = [r \in Requests |->
                 IF hops[r] # <<>> /\ At(r, 1) THEN "lost"
                 ELSE IF Behind(r) \/ (Attached(r) /\ peer[r] = n) THEN "failed"
                 ELSE phase[r]]
           /\ hops' = [r \in Requests |->
                 IF hops[r] # <<>> /\ ~ At(r, 1) /\ Behind(r)
                 THEN SubSeq(hops[r], 1, (CHOOSE i \in 2 .. Len(hops[r]) :
                         At(r, i) /\ \A j \in 2 .. i - 1 : ~ At(r, j)) - 1)
                 ELSE hops[r]]
    /\ UNCHANGED <<kind, model, peer, lines>>

\* The client of a stream leaves, and its generators are cancelled.  (An answer that
\* is not streamed is made all the same and given to nobody.)
Leave(r) ==
    /\ kind[r] = "stream"
    /\ phase[r] \notin {"new", "ended", "lost"}
    /\ SetPhase(r, "lost")
    /\ UNCHANGED <<nodes, knowledge, kind, model, hops, peer, lines>>

\* A node hangs: it was suspended, or the network swallows everything.
Hang(n) ==
    /\ cond[n] = "up"
    /\ fails < MaxFails
    /\ fails' = fails + 1
    /\ cond' = [cond EXCEPT ![n] = "hung"]
    /\ UNCHANGED <<knowledge, kind, model, hops, peer, phase, lines>>

Recover(n) ==
    /\ cond[n] # "up"
    /\ cond' = [cond EXCEPT ![n] = "up"]
    /\ UNCHANGED <<fails, knowledge, kind, model, hops, peer, phase, lines>>

\* A request to a peer that is down fails at once.
Unreachable(r) == phase[r] = "sending" /\ cond[peer[r]] = "down" /\ Dropped(r)

Handle(r) == \/ Route(r) \/ Accept(r) \/ Refuse(r) \/ Unreachable(r) \/ TimeOut(r)
             \/ Fallback(r) \/ Answer(r) \/ Stream(r) \/ ModelFails(r)
             \/ Finish(r) \/ Close(r)

Next ==
    \/ \E n, m \in Nodes : Greet(n, m) \/ AgeOut(n, m)
    \/ \E n \in Nodes : \/ \E S \in SUBSET Models : Refresh(n, S)
                        \/ \E r \in Requests : Ask(r, n)
                        \/ Crash(n) \/ Hang(n) \/ Recover(n)
    \/ \E r \in Requests : Handle(r) \/ Break(r) \/ Leave(r)

\* The handlers run; nothing makes a client ask, a node recover or a connection break.
Spec == Init /\ [][Next]_vars /\ \A r \in Requests : WF_vars(Handle(r))
-----------------------------------------------------------------------------
\* A request is forwarded once at most, however stale the registries are that two
\* nodes route by: no request goes round in the mesh.
OneHop == \A r \in Requests : Len(hops[r]) <= 2

\* Whoever the last line or the answer names has written the text before it,
\* whichever peers the request was sent to and lost on the way.
ServedByIsTrue ==
    \A r \in Requests : \A i \in DOMAIN lines[r] :
        lines[r][i].type = "done" /\ lines[r][i].by # Nobody
        => i > 1 /\ lines[r][i - 1].type = "t" /\ lines[r][i - 1].by = lines[r][i].by

\* A stream that ends is a refusal, or its last part is the reply of one node: of
\* the one that was asked, if there was a note.  What a peer had said before it
\* failed is never mixed with the reply that replaces it, and a reply that is not
\* whole says so by the text of an error.
LastPart(s) == SubSeq(s, Len(s) - SinceNote(s) + 1, Len(s))

WholeReply(n, s) ==
    /\ Last(s) \in {Done(n), Done(Nobody)}
    /\ \/ Front(s) = [i \in 1 .. Chunks |-> Text(n, i)]
       \/ \E k \in 0 .. Chunks :
             Front(s) = Append([i \in 1 .. k |-> Text(n, i)], Fault(n))

ReplyIsWhole ==
    \A r \in Requests : phase[r] = "ended" /\ kind[r] = "stream" =>
        \/ Last(lines[r]) = Junk
        \/ \E n \in Nodes : /\ WholeReply(n, LastPart(lines[r]))
                            /\ Note \in Range(lines[r]) => n = Head(hops[r])

\* Every request is answered, unless the node that was asked crashes or hangs.
\* A peer that crashes, hangs or refuses is made up for; only a stream waits for
\* a peer that hangs.
Stuck(r) == \/ hops[r] # <<>> /\ cond[Head(hops[r])] = "hung"
            \/ kind[r] = "stream" /\ \E n \in {peer[r]} \cap Nodes : cond[n] = "hung"

EveryoneIsAnswered ==
    \A r \in Requests :
        phase[r] = "routing" ~> (phase[r] \in {"ended", "lost"} \/ Stuck(r))
=============================================================================
