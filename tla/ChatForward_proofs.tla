------------------------ MODULE ChatForward_proofs ------------------------
(***************************************************************************)
(* Theorems about the forwarding of chat requests, for every mesh.         *)
(*                                                                         *)
(* ChatInv, the inductive invariant, has four parts: HopInv, how long the  *)
(* chains of nodes are; WorldType; SpeakInv, who has written the last      *)
(* line; and PartInv, that the lines since the last note are the reply of  *)
(* the node at work, in order and without a gap.                           *)
(***************************************************************************)
EXTENDS ChatForward, SequenceTheorems, FiniteSetTheorems, TLAPS

USE ChatAssumption DEF ChatAssumption

\* What is being sent was not forwarded before; nobody handles what is not asked.
HopInv ==
    /\ hops \in [Requests -> Seq(Nodes)]
    /\ phase \in [Requests -> Phases]
    /\ peer \in [Requests -> Nodes \cup {Nobody}]
    /\ \A r \in Requests :
          /\ Len(hops[r]) <= 2
          /\ phase[r] = "new" => hops[r] = <<>>
          /\ phase[r] # "new" => 1 <= Len(hops[r])
          /\ phase[r] = "sending" => Len(hops[r]) = 1 /\ peer[r] \in Nodes

\* HopInv, for one request.
HopsOf(r) ==
    /\ Len(hops[r]) <= 2
    /\ phase[r] = "new" => hops[r] = <<>>
    /\ phase[r] # "new" => 1 <= Len(hops[r])
    /\ phase[r] = "sending" => Len(hops[r]) = 1 /\ peer[r] \in Nodes

LEMMA HopInvIsHopsOf ==
    HopInv <=> /\ hops \in [Requests -> Seq(Nodes)]
               /\ phase \in [Requests -> Phases]
               /\ peer \in [Requests -> Nodes \cup {Nobody}]
               /\ \A r \in Requests : HopsOf(r)
  BY DEF HopInv, HopsOf

\* A peer that is picked is a node.
LEMMA TargetIsNode ==
    ASSUME NEW n \in Nodes, NEW x, NEW t \in Target(n, x)
    PROVE  t \in Nodes
  BY DEF Target, Best

\* A chain of nodes without its last.
LEMMA FrontOfChain ==
    ASSUME NEW s \in Seq(Nodes), Len(s) \in Nat, 2 <= Len(s)
    PROVE  Front(s) \in Seq(Nodes) /\ Len(Front(s)) = Len(s) - 1
  BY DEF Front

\* A chain of one node with another.
LEMMA LongerChain ==
    ASSUME NEW s \in Seq(Nodes), NEW e \in Nodes, Len(s) = 1
    PROVE  Append(s, e) \in Seq(Nodes) /\ Len(Append(s, e)) = 2
<1>1. Append(s, e) \in Seq(Nodes) /\ Len(Append(s, e)) = Len(s) + 1
  BY AppendProperties, ZenonT(60)
<1> QED
  BY <1>1

\* Without the peers that have dropped out a chain is shorter, and not empty.
LEMMA KeptIsShorter ==
    ASSUME HopInv, NEW r \in Requests, Waits(r)
    PROVE  /\ Kept(r) \in Seq(Nodes)
           /\ 1 <= Len(Kept(r)) /\ Len(Kept(r)) <= 2
<1>1. hops[r] \in Seq(Nodes) /\ Len(hops[r]) \in Nat /\ Len(hops[r]) <= 2
  BY DEF HopInv
<1>2. 1 <= Len(hops[r])
  BY DEF HopInv, Waits, Attached
<1>3. CASE Attached(r)
  BY <1>1, <1>2, <1>3 DEF Kept
<1>4. CASE ~ Attached(r)
  <2>1. Kept(r) = Front(hops[r]) /\ 2 <= Len(hops[r])
    BY <1>1, <1>4 DEF Kept, Waits
  <2> QED
    BY <1>1, <2>1, FrontOfChain
<1> QED
  BY <1>3, <1>4

\* What a crash of n finds: n handles r, at this place of its chain or behind the
\* first; and what is left of the chain.
At(n, r, i) == phase[r] \notin {"ended", "lost"} /\ hops[r][i] = n
Behind(n, r) == \E i \in 2 .. Len(hops[r]) : At(n, r, i)
Cut(n, r) == SubSeq(hops[r], 1, (CHOOSE i \in 2 .. Len(hops[r]) :
                At(n, r, i) /\ \A j \in 2 .. i - 1 : ~ At(n, r, j)) - 1)

LEMMA CrashIs ==
    ASSUME NEW n \in Nodes, Crash(n)
    PROVE  /\ peer' = peer /\ kind' = kind /\ lines' = lines
           /\ phase' = [r \in Requests |->
                 IF hops[r] # <<>> /\ At(n, r, 1) THEN "lost"
                 ELSE IF Behind(n, r) \/ (Attached(r) /\ peer[r] = n) THEN "failed"
                 ELSE phase[r]]
           /\ hops' = [r \in Requests |->
                 IF hops[r] # <<>> /\ ~ At(n, r, 1) /\ Behind(n, r)
                 THEN Cut(n, r) ELSE hops[r]]
  BY DEF Crash, At, Behind, Cut

LEMMA CutIsOne ==
    ASSUME HopInv, NEW n, NEW r \in Requests, Behind(n, r)
    PROVE  Cut(n, r) \in Seq(Nodes) /\ Len(Cut(n, r)) = 1
<1>1. hops[r] \in Seq(Nodes) /\ Len(hops[r]) \in Nat /\ Len(hops[r]) <= 2
  BY DEF HopInv
<1>2. Len(hops[r]) = 2 /\ At(n, r, 2)
  <2>1. PICK i \in 2 .. Len(hops[r]) : At(n, r, i)
    BY DEF Behind
  <2>2. i = 2 /\ Len(hops[r]) = 2
    <3> DEFINE l == Len(hops[r])
    <3>1. l \in Nat /\ l <= 2 /\ i \in 2 .. l
      BY <1>1
    <3> HIDE DEF l
    <3>2. i = 2 /\ l = 2
      BY <3>1
    <3> QED
      BY <3>2 DEF l
  <2> QED
    BY <2>1, <2>2
<1>3. (CHOOSE i \in 2 .. Len(hops[r]) :
          At(n, r, i) /\ \A j \in 2 .. i - 1 : ~ At(n, r, j)) = 2
  <2>1. At(n, r, 2) /\ \A j \in 2 .. 2 - 1 : ~ At(n, r, j)
    BY <1>2
  <2>2. 2 \in 2 .. Len(hops[r]) /\ \A i \in 2 .. Len(hops[r]) : i = 2
    BY <1>2
  <2> QED
    BY <2>1, <2>2
<1>4. Cut(n, r) = SubSeq(hops[r], 1, 2 - 1)
  BY <1>3 DEF Cut
<1> QED
  BY <1>1, <1>2, <1>4

\* Every step keeps the chains short.
LEMMA HopStep == HopInv /\ [Next]_vars => HopInv'
<1> SUFFICES ASSUME HopInv, [Next]_vars PROVE HopInv'
  OBVIOUS
<1>0. /\ hops \in [Requests -> Seq(Nodes)]
      /\ phase \in [Requests -> Phases]
      /\ peer \in [Requests -> Nodes \cup {Nobody}]
  BY DEF HopInv
<1>1. ASSUME UNCHANGED <<hops, peer, phase>> PROVE HopInv'
  BY <1>1 DEF HopInv
<1>2. ASSUME NEW r \in Requests, NEW p \in Phases \ {"new", "sending"}, SetPhase(r, p),
             phase[r] # "new", UNCHANGED <<hops, peer>>
      PROVE  HopInv'
  BY <1>2 DEF HopInv, SetPhase
<1>3. ASSUME NEW r \in Requests, Waits(r), Dropped(r) PROVE HopInv'
  <2>1. Kept(r) \in Seq(Nodes) /\ 1 <= Len(Kept(r)) /\ Len(Kept(r)) <= 2
    BY <1>3, KeptIsShorter
  <2>2. /\ hops' = [hops EXCEPT ![r] = Kept(r)]
        /\ phase' = [phase EXCEPT ![r] = "failed"]
        /\ peer' = peer
    BY <1>3 DEF Dropped, SetPhase
  <2>3. hops' \in [Requests -> Seq(Nodes)] /\ phase' \in [Requests -> Phases]
    BY <1>0, <2>1, <2>2 DEF Phases
  <2>4. ASSUME NEW q \in Requests PROVE HopsOf(q)'
    <3>1. CASE q = r
      <4>1. hops'[q] = Kept(r) /\ phase'[q] = "failed"
        BY <1>0, <2>2, <3>1
      <4> QED
        BY <2>1, <4>1 DEF HopsOf
    <3>2. CASE q # r
      BY <2>2, <3>2 DEF HopInv, HopsOf
    <3> QED
      BY <3>1, <3>2
  <2> QED
    BY <1>0, <2>2, <2>3, <2>4 DEF HopInv, HopsOf
<1>4. ASSUME NEW r \in Requests, NEW n \in Nodes, Ask(r, n) PROVE HopInv'
  <2>1. /\ hops' = [hops EXCEPT ![r] = <<n>>]
        /\ phase' = [phase EXCEPT ![r] = "routing"]
        /\ peer' = peer
    BY <1>4 DEF Ask, SetPhase
  <2>2. <<n>> \in Seq(Nodes) /\ Len(<<n>>) = 1
    OBVIOUS
  <2>3. hops' \in [Requests -> Seq(Nodes)] /\ phase' \in [Requests -> Phases]
    BY <1>0, <2>1, <2>2 DEF Phases
  <2>4. ASSUME NEW q \in Requests PROVE HopsOf(q)'
    <3>1. CASE q = r
      <4>1. hops'[q] = <<n>> /\ phase'[q] = "routing"
        BY <1>0, <2>1, <3>1
      <4> QED
        BY <2>2, <4>1 DEF HopsOf
    <3>2. CASE q # r
      BY <2>1, <3>2 DEF HopInv, HopsOf
    <3> QED
      BY <3>1, <3>2
  <2> QED
    BY <1>0, <2>1, <2>3, <2>4 DEF HopInv, HopsOf
<1>5. ASSUME NEW r \in Requests, Route(r) PROVE HopInv'
  <2>1. /\ phase[r] = "routing" /\ hops' = hops
        /\ hops[r] \in Seq(Nodes) /\ Len(hops[r]) \in Nat /\ 1 <= Len(hops[r])
    BY <1>5 DEF Route, HopInv
  <2>2. Last(hops[r]) \in Nodes
    BY <2>1 DEF Last
  <2>3. PICK t \in Target(Last(hops[r]), model[r]) :
          IF t # Last(hops[r]) /\ Len(hops[r]) = 1
          THEN SetPhase(r, "sending") /\ peer' = [peer EXCEPT ![r] = t]
          ELSE SetPhase(r, "answering") /\ UNCHANGED peer
    BY <1>5 DEF Route
  <2>4. t \in Nodes
    BY <2>2, TargetIsNode
  <2>5. CASE t # Last(hops[r]) /\ Len(hops[r]) = 1
    <3>1. phase' = [phase EXCEPT ![r] = "sending"] /\ peer' = [peer EXCEPT ![r] = t]
      BY <2>3, <2>5 DEF SetPhase
    <3>2. phase' \in [Requests -> Phases] /\ peer' \in [Requests -> Nodes \cup {Nobody}]
      BY <1>0, <2>4, <3>1 DEF Phases
    <3>3. ASSUME NEW q \in Requests PROVE HopsOf(q)'
      BY <1>0, <2>1, <2>4, <2>5, <3>1 DEF HopInv, HopsOf
    <3> QED
      BY <1>0, <2>1, <3>2, <3>3 DEF HopInv, HopsOf
  <2>6. CASE ~ (t # Last(hops[r]) /\ Len(hops[r]) = 1)
    BY <1>2, <2>1, <2>3, <2>6 DEF Phases
  <2> QED
    BY <2>5, <2>6
<1>6. ASSUME NEW r \in Requests, Accept(r) PROVE HopInv'
  <2>1. /\ hops' = [hops EXCEPT ![r] = Append(@, peer[r])]
        /\ phase' = [phase EXCEPT ![r] = "routing"]
        /\ peer' = peer
        /\ Len(hops[r]) = 1 /\ hops[r] \in Seq(Nodes) /\ peer[r] \in Nodes
    BY <1>6 DEF Accept, SetPhase, HopInv
  <2>2. Append(hops[r], peer[r]) \in Seq(Nodes) /\ Len(Append(hops[r], peer[r])) = 2
    BY <2>1, LongerChain
  <2>3. hops' \in [Requests -> Seq(Nodes)] /\ phase' \in [Requests -> Phases]
    BY <1>0, <2>1, <2>2 DEF Phases
  <2>4. ASSUME NEW q \in Requests PROVE HopsOf(q)'
    <3>1. CASE q = r
      <4>1. hops'[q] = Append(hops[r], peer[r]) /\ phase'[q] = "routing"
        BY <1>0, <2>1, <3>1
      <4> QED
        BY <2>2, <4>1 DEF HopsOf
    <3>2. CASE q # r
      BY <2>1, <3>2 DEF HopInv, HopsOf
    <3> QED
      BY <3>1, <3>2
  <2> QED
    BY <1>0, <2>1, <2>3, <2>4 DEF HopInv, HopsOf
<1>7. ASSUME NEW n \in Nodes, Crash(n) PROVE HopInv'
  <2>1. /\ peer' = peer
        /\ phase' = [r \in Requests |->
                 IF hops[r] # <<>> /\ At(n, r, 1) THEN "lost"
                 ELSE IF Behind(n, r) \/ (Attached(r) /\ peer[r] = n) THEN "failed"
                 ELSE phase[r]]
        /\ hops' = [r \in Requests |->
                 IF hops[r] # <<>> /\ ~ At(n, r, 1) /\ Behind(n, r)
                 THEN Cut(n, r) ELSE hops[r]]
    BY <1>7, CrashIs
  <2>2. ASSUME NEW r \in Requests, Behind(n, r)
        PROVE  Cut(n, r) \in Seq(Nodes) /\ Len(Cut(n, r)) = 1
    BY <2>2, CutIsOne
  <2>3. hops' \in [Requests -> Seq(Nodes)] /\ phase' \in [Requests -> Phases]
    BY <1>0, <2>1, <2>2 DEF Phases
  <2>4. ASSUME NEW r \in Requests PROVE HopsOf(r)'
    <3>0. hops[r] = <<>> \/ 1 <= Len(hops[r])
      BY DEF HopInv
    <3>1. CASE hops[r] = <<>>
      <4>1. ~ Behind(n, r) /\ ~ Attached(r)
        BY <3>1, SMTT(60) DEF Attached, HopInv, Behind
      <4>2. hops'[r] = hops[r] /\ phase'[r] = phase[r]
        BY <2>1, <3>1, <4>1
      <4> QED
        BY <2>1, <4>2 DEF HopInv, HopsOf
    <3>2. CASE hops[r] # <<>>
      <4>1. phase[r] # "new" /\ 1 <= Len(hops[r]) /\ Len(hops[r]) <= 2
        BY <3>2 DEF HopInv
      <4>2. phase'[r] \in {"lost", "failed"} \/ (phase'[r] = phase[r] /\ ~ Behind(n, r))
        BY <2>1
      <4>3. hops'[r] = hops[r] \/ (Behind(n, r) /\ hops'[r] = Cut(n, r))
        BY <2>1
      <4>4. 1 <= Len(hops'[r]) /\ Len(hops'[r]) <= 2
        <5>1. CASE hops'[r] = hops[r]
          BY <4>1, <5>1
        <5>2. CASE Behind(n, r) /\ hops'[r] = Cut(n, r)
          <6>1. Len(hops'[r]) = 1
            BY <2>2, <5>2
          <6> QED
            BY <6>1
        <5> QED
          BY <4>3, <5>1, <5>2
      <4>5. CASE phase'[r] \in {"lost", "failed"}
        BY <4>4, <4>5 DEF HopsOf
      <4>6. CASE phase'[r] = phase[r] /\ ~ Behind(n, r)
        BY <2>1, <4>1, <4>3, <4>6 DEF HopInv, HopsOf
      <4> QED
        BY <4>2, <4>5, <4>6
    <3> QED
      BY <3>1, <3>2
  <2> QED
    BY <1>0, <2>1, <2>3, <2>4 DEF HopInv, HopsOf
<1>8. ASSUME NEW r \in Requests, Handle(r) PROVE HopInv'
  <2>1. CASE Unreachable(r) \/ TimeOut(r)
    BY <1>3, <2>1 DEF Unreachable, TimeOut, Waits, Attached
  <2>2. CASE Refuse(r)
    BY <1>2, <2>2 DEF Refuse, Phases
  <2>3. CASE Fallback(r)
    BY <1>2, <2>3 DEF Fallback, Phases
  <2>4. CASE Answer(r)
    BY <1>2, <2>4 DEF Answer, AtWork, Phases
  <2>5. CASE Stream(r)
    BY <1>1, <2>5 DEF Stream
  <2>6. CASE Finish(r)
    BY <1>2, <2>6 DEF Finish, AtWork, Phases
  <2>7. CASE Close(r)
    BY <1>2, <2>7 DEF Close, Phases
  <2>8. CASE ModelFails(r)
    BY <1>1, <2>8 DEF ModelFails
  <2> QED
    BY <1>5, <1>6, <1>8, <2>1, <2>2, <2>3, <2>4, <2>5, <2>6, <2>7, <2>8 DEF Handle
<1>9. ASSUME NEW n \in Nodes, Hang(n) \/ Recover(n) PROVE HopInv'
  BY <1>1, <1>9 DEF Hang, Recover
<1>10. ASSUME NEW n \in Nodes, NEW m \in Nodes, Greet(n, m) \/ AgeOut(n, m) PROVE HopInv'
  BY <1>1, <1>10 DEF Greet, AgeOut
<1>11. ASSUME NEW n \in Nodes, NEW S \in SUBSET Models, Refresh(n, S) PROVE HopInv'
  BY <1>1, <1>11 DEF Refresh
<1>12. ASSUME NEW r \in Requests, Break(r) PROVE HopInv'
  BY <1>3, <1>12 DEF Break
<1>13. CASE UNCHANGED vars
  BY <1>1, <1>13 DEF vars
<1>14. ASSUME NEW r \in Requests, Leave(r) PROVE HopInv'
  BY <1>2, <1>14 DEF Leave, Phases
<1> QED
  BY <1>4, <1>7, <1>8, <1>9, <1>10, <1>11, <1>12, <1>13, <1>14 DEF Next

\* No request is forwarded twice, however many nodes there are and whatever they
\* believe of each other.
THEOREM OnlyOneHop == Spec => []OneHop
<1>1. Init => HopInv
  BY DEF Init, HopInv, Phases
<1>2. HopInv => OneHop
  BY DEF HopInv, OneHop
<1> QED
  BY <1>1, <1>2, HopStep, PTL DEF Spec
-----------------------------------------------------------------------------
\* The types of what the clients and the registries have.
WorldType ==
    /\ cond \in [Nodes -> {"up", "hung", "down"}]
    /\ fails \in 0 .. MaxFails
    /\ local \in [Nodes -> SUBSET Models]
    /\ alive \in [Nodes -> SUBSET Nodes]
    /\ view \in [Nodes -> [Nodes -> SUBSET Models]]
    /\ kind \in [Requests -> {"once", "stream"}]
    /\ model \in [Requests -> Models]

LEMMA WorldStep == WorldType /\ [Next]_vars => WorldType'
<1> SUFFICES ASSUME WorldType, [Next]_vars PROVE WorldType'
  OBVIOUS
<1>1. ASSUME UNCHANGED <<nodes, knowledge, kind, model>> PROVE WorldType'
  BY <1>1 DEF WorldType, nodes, knowledge
<1>2. ASSUME NEW n \in Nodes, NEW m \in Nodes, Greet(n, m) PROVE WorldType'
  BY <1>2 DEF Greet, WorldType, nodes
<1>3. ASSUME NEW n \in Nodes, NEW m \in Nodes, AgeOut(m, n) PROVE WorldType'
  BY <1>3 DEF AgeOut, WorldType, nodes
<1>4. ASSUME NEW n \in Nodes, NEW S \in SUBSET Models, Refresh(n, S) PROVE WorldType'
  BY <1>4 DEF Refresh, WorldType, nodes
<1>5. ASSUME NEW n \in Nodes, Crash(n) PROVE WorldType'
  <2>1. /\ fails < MaxFails /\ fails' = fails + 1
        /\ cond' = [cond EXCEPT ![n] = "down"]
        /\ local' = [local EXCEPT ![n] = {}]
        /\ alive' = [alive EXCEPT ![n] = {}]
        /\ view' = [view EXCEPT ![n] = [m \in Nodes |-> {}]]
        /\ kind' = kind /\ model' = model
    BY <1>5 DEF Crash
  <2> QED
    BY <2>1 DEF WorldType
<1>6. ASSUME NEW n \in Nodes, Hang(n) \/ Recover(n) PROVE WorldType'
  BY <1>6 DEF Hang, Recover, WorldType, knowledge
<1>7. ASSUME NEW r \in Requests, NEW n \in Nodes, Ask(r, n) PROVE WorldType'
  BY <1>1, <1>7 DEF Ask
<1>8. ASSUME NEW r \in Requests, Handle(r) \/ Break(r) \/ Leave(r) PROVE WorldType'
  BY <1>1, <1>8 DEF Handle, Break, Route, Accept, Refuse, Unreachable, TimeOut, Dropped,
                    Fallback, Answer, Stream, ModelFails, Finish, Close, Leave
<1>9. CASE UNCHANGED vars
  BY <1>1, <1>9 DEF vars
<1> QED
  BY <1>2, <1>3, <1>4, <1>5, <1>6, <1>7, <1>8, <1>9 DEF Next

\* Who a "done" line names has written the line before it.
Truthful(s) ==
    \A i \in DOMAIN s :
        s[i].type = "done" /\ s[i].by # Nobody
        => i > 1 /\ s[i - 1].type = "t" /\ s[i - 1].by = s[i].by

\* What a client has got of a request that hs handle: nothing before one of them
\* answers, and then, after the last note, text by the last of them.
SpeakOf(s, hs, p, k) ==
    /\ p \in {"new", "routing", "sending"} => s = <<>>
    /\ k = "once" /\ p # "ended" => s = <<>>
    /\ p \in {"answering", "instead"} /\ s # <<>> =>
          s[Len(s)] = Note \/ (s[Len(s)].type = "t" /\ s[Len(s)].by = hs[Len(hs)])
    /\ Truthful(s)

SpeakInv ==
    /\ lines \in [Requests -> Seq(Line)]
    /\ \A r \in Requests : /\ SpeakOf(lines[r], hops[r], phase[r], kind[r])
                           /\ phase[r] = "sending" => peer[r] # Last(hops[r])

LEMMA LineTypes ==
    /\ Note \in Line /\ Junk \in Line
    /\ Note.type = "note" /\ Junk.type = "junk"
    /\ \A n \in Nodes, i \in 0 .. Chunks : /\ Text(n, i) \in Line
                                          /\ Text(n, i).type = "t" /\ Text(n, i).by = n
    /\ \A n \in Nodes \cup {Nobody} : /\ Done(n) \in Line
                                      /\ Done(n).type = "done" /\ Done(n).by = n
  BY DEF Note, Junk, Text, Done, Line

\* Nothing is true.
LEMMA SilentIsTruthful == \A hs, p, k : SpeakOf(<<>>, hs, p, k)
  BY DEF SpeakOf, Truthful

\* A line may be added if it names nobody, or the author of the line before.
LEMMA TruthfulAppend ==
    ASSUME NEW s \in Seq(Line), NEW e \in Line, Truthful(s),
           e.type = "done" /\ e.by # Nobody =>
              s # <<>> /\ s[Len(s)].type = "t" /\ s[Len(s)].by = e.by
    PROVE  /\ Truthful(Append(s, e))
           /\ Append(s, e) \in Seq(Line)
           /\ Append(s, e) # <<>>
           /\ Append(s, e)[Len(Append(s, e))] = e
<1>1. /\ Append(s, e) \in Seq(Line)
      /\ Append(s, e) # <<>>
      /\ Len(Append(s, e)) = Len(s) + 1
      /\ \A i \in 1 .. Len(s) : Append(s, e)[i] = s[i]
      /\ Append(s, e)[Len(s) + 1] = e
  BY AppendProperties
<1>2. /\ Len(s) \in Nat /\ DOMAIN s = 1 .. Len(s)
      /\ s # <<>> => Len(s) >= 1
  BY LenProperties, EmptySeq
<1>3. DOMAIN Append(s, e) = 1 .. Len(s) + 1
  BY <1>1, LenProperties
<1>4. ASSUME NEW i \in 1 .. Len(s) + 1,
             Append(s, e)[i].type = "done", Append(s, e)[i].by # Nobody
      PROVE  /\ i > 1
             /\ Append(s, e)[i - 1].type = "t"
             /\ Append(s, e)[i - 1].by = Append(s, e)[i].by
  <2>1. CASE i = Len(s) + 1
    <3>1. Append(s, e)[i] = e
      BY <1>1, <2>1
    <3>2. s # <<>> /\ s[Len(s)].type = "t" /\ s[Len(s)].by = e.by /\ Len(s) >= 1
      BY <1>2, <1>4, <3>1
    <3>3. i - 1 = Len(s) /\ i > 1 /\ Len(s) \in 1 .. Len(s)
      BY <1>2, <2>1, <3>2
    <3>4. Append(s, e)[i - 1] = s[Len(s)]
      BY <1>1, <3>3
    <3> QED
      BY <3>1, <3>2, <3>3, <3>4
  <2>2. CASE i \in 1 .. Len(s)
    <3>1. Append(s, e)[i] = s[i]
      BY <1>1, <2>2
    <3>2. i > 1 /\ s[i - 1].type = "t" /\ s[i - 1].by = s[i].by
      BY <1>2, <1>4, <2>2, <3>1 DEF Truthful
    <3>3. i - 1 \in 1 .. Len(s)
      BY <1>2, <2>2, <3>2
    <3>4. Append(s, e)[i - 1] = s[i - 1]
      BY <1>1, <3>3
    <3> QED
      BY <3>1, <3>2, <3>4
  <2> QED
    BY <1>2, <2>1, <2>2
<1> QED
  BY <1>1, <1>3, <1>4 DEF Truthful

\* Lines since the last note are counted; if there is one, the last line is no note.
LEMMA SinceNoteCounts ==
    ASSUME NEW s \in Seq(Line)
    PROVE  /\ SinceNote(s) \in Nat
           /\ SinceNote(s) > 0 => s # <<>> /\ s[Len(s)] # Note
<1> DEFINE N == {j \in DOMAIN s : \A k \in j .. Len(s) : s[k] # Note}
<1>1. Len(s) \in Nat /\ DOMAIN s = 1 .. Len(s)
  BY LenProperties
<1>2. IsFiniteSet(1 .. Len(s))
  BY <1>1, FS_Interval
<1>3. N \in SUBSET (1 .. Len(s))
  BY <1>1
<1>4. IsFiniteSet(N)
  BY <1>2, <1>3, FS_Subset
<1>5. Cardinality(N) \in Nat /\ (Cardinality(N) = 0 <=> N = {})
  BY <1>4, FS_CardinalityType, FS_EmptySet
<1>6. ASSUME N # {} PROVE s # <<>> /\ s[Len(s)] # Note
  <2>1. PICK j \in 1 .. Len(s) : \A k \in j .. Len(s) : s[k] # Note
    BY <1>1, <1>6
  <2>2. Len(s) \in j .. Len(s)
    BY <1>1, <2>1
  <2> QED
    BY <1>1, <2>1, <2>2
<1>7. SinceNote(s) = Cardinality(N)
  BY DEF SinceNote
<1> QED
  BY <1>5, <1>6, <1>7

LEMMA SpeakStep == HopInv /\ WorldType /\ SpeakInv /\ [Next]_vars => SpeakInv'
<1> SUFFICES ASSUME HopInv, WorldType, SpeakInv, [Next]_vars PROVE SpeakInv'
  OBVIOUS
<1>0. /\ lines \in [Requests -> Seq(Line)]
      /\ hops \in [Requests -> Seq(Nodes)]
      /\ phase \in [Requests -> Phases]
      /\ peer \in [Requests -> Nodes \cup {Nobody}]
      /\ kind \in [Requests -> {"once", "stream"}]
  BY DEF HopInv, WorldType, SpeakInv
<1>1. ASSUME UNCHANGED <<hops, peer, phase, lines, kind>> PROVE SpeakInv'
  BY <1>1 DEF SpeakInv
\* What happens to one request leaves the others alone.
<1>2. ASSUME NEW r \in Requests, NEW s \in Seq(Line), kind' = kind,
             lines' = [lines EXCEPT ![r] = s],
             \A q \in Requests \ {r} : /\ hops'[q] = hops[q]
                                       /\ phase'[q] = phase[q]
                                       /\ peer'[q] = peer[q],
             SpeakOf(s, hops'[r], phase'[r], kind[r]),
             phase'[r] = "sending" => peer'[r] # Last(hops'[r])
      PROVE  SpeakInv'
  <2>1. lines' \in [Requests -> Seq(Line)] /\ lines'[r] = s
    BY <1>0, <1>2
  <2>2. ASSUME NEW q \in Requests
        PROVE  /\ SpeakOf(lines'[q], hops'[q], phase'[q], kind'[q])
               /\ phase'[q] = "sending" => peer'[q] # Last(hops'[q])
    <3>1. CASE q = r
      BY <1>2, <2>1, <3>1
    <3>2. CASE q # r
      <4>1. /\ lines'[q] = lines[q] /\ hops'[q] = hops[q] /\ phase'[q] = phase[q]
            /\ peer'[q] = peer[q]
        BY <1>0, <1>2, <3>2
      <4> QED
        BY <1>2, <4>1 DEF SpeakInv
    <3> QED
      BY <3>1, <3>2
  <2> QED
    BY <2>1, <2>2 DEF SpeakInv
\* A request of which the client has got nothing.
<1>3. ASSUME NEW r \in Requests, phase[r] \in {"new", "routing", "sending"}, kind' = kind,
             lines' = lines,
             \A q \in Requests \ {r} : /\ hops'[q] = hops[q]
                                       /\ phase'[q] = phase[q]
                                       /\ peer'[q] = peer[q],
             phase'[r] = "sending" => peer'[r] # Last(hops'[r])
      PROVE  SpeakInv'
  <2>1. lines[r] = <<>>
    BY <1>3 DEF SpeakInv, SpeakOf
  <2>2. <<>> \in Seq(Line) /\ lines' = [lines EXCEPT ![r] = <<>>]
    BY <1>0, <1>3, <2>1
  <2>3. SpeakOf(<<>>, hops'[r], phase'[r], kind[r])
    BY SilentIsTruthful
  <2> QED
    BY <1>2, <1>3, <2>2, <2>3
<1>4. ASSUME NEW r \in Requests, NEW n \in Nodes, Ask(r, n) PROVE SpeakInv'
  <2>1. /\ phase[r] = "new" /\ kind' = kind /\ lines' = lines /\ peer' = peer
        /\ hops' = [hops EXCEPT ![r] = <<n>>]
        /\ phase' = [phase EXCEPT ![r] = "routing"]
    BY <1>4 DEF Ask, SetPhase
  <2> QED
    BY <1>0, <1>3, <2>1
<1>5. ASSUME NEW r \in Requests, Route(r) PROVE SpeakInv'
  <2>1. /\ phase[r] = "routing" /\ hops' = hops /\ kind' = kind /\ lines' = lines
    BY <1>5 DEF Route
  <2>2. PICK t \in Target(Last(hops[r]), model[r]) :
          IF t # Last(hops[r]) /\ Len(hops[r]) = 1
          THEN SetPhase(r, "sending") /\ peer' = [peer EXCEPT ![r] = t]
          ELSE SetPhase(r, "answering") /\ UNCHANGED peer
    BY <1>5 DEF Route
  <2>3. CASE t # Last(hops[r]) /\ Len(hops[r]) = 1
    <3>1. phase' = [phase EXCEPT ![r] = "sending"] /\ peer' = [peer EXCEPT ![r] = t]
      BY <2>2, <2>3 DEF SetPhase
    <3> QED
      BY <1>0, <1>3, <2>1, <2>3, <3>1
  <2>4. CASE ~ (t # Last(hops[r]) /\ Len(hops[r]) = 1)
    <3>1. phase' = [phase EXCEPT ![r] = "answering"] /\ peer' = peer
      BY <2>2, <2>4 DEF SetPhase
    <3> QED
      BY <1>0, <1>3, <2>1, <3>1
  <2> QED
    BY <2>3, <2>4
<1>6. ASSUME NEW r \in Requests, Accept(r) PROVE SpeakInv'
  <2>1. /\ phase[r] = "sending" /\ kind' = kind /\ lines' = lines /\ peer' = peer
        /\ hops' = [hops EXCEPT ![r] = Append(@, peer[r])]
        /\ phase' = [phase EXCEPT ![r] = "routing"]
    BY <1>6 DEF Accept, SetPhase
  <2> QED
    BY <1>0, <1>3, <2>1
\* A request that ends, fails or goes on with what the client has, or a line more.
<1>7. ASSUME NEW r \in Requests, NEW p \in Phases \ {"sending"}, NEW s \in Seq(Line),
             phase' = [phase EXCEPT ![r] = p], kind' = kind, hops' = hops, peer' = peer,
             lines' = [lines EXCEPT ![r] = s],
             SpeakOf(s, hops[r], p, kind[r])
      PROVE  SpeakInv'
  BY <1>0, <1>2, <1>7
<1>8. ASSUME NEW r \in Requests, Refuse(r) PROVE SpeakInv'
  <2>1. /\ phase[r] = "sending" /\ kind' = kind /\ hops' = hops /\ peer' = peer
        /\ lines[r] = <<>>
    BY <1>8 DEF Refuse, SpeakInv, SpeakOf
  <2>2. CASE kind[r] = "once"
    <3>1. phase' = [phase EXCEPT ![r] = "failed"] /\ lines' = lines
      BY <1>8, <2>2 DEF Refuse, SetPhase
    <3> QED
      BY <1>0, <1>3, <2>1, <3>1
  <2>3. CASE kind[r] = "stream"
    <3>1. /\ phase' = [phase EXCEPT ![r] = "closing"]
          /\ lines' = [lines EXCEPT ![r] = Append(lines[r], Junk)]
      BY <1>0, <1>8, <2>3 DEF Refuse, SetPhase, Sent
    <3>2. Truthful(lines[r]) /\ lines[r] \in Seq(Line)
      BY <1>0 DEF SpeakInv, SpeakOf
    <3>3. Truthful(Append(lines[r], Junk)) /\ Append(lines[r], Junk) \in Seq(Line)
      BY <3>2, LineTypes, TruthfulAppend
    <3>4. SpeakOf(Append(lines[r], Junk), hops[r], "closing", kind[r])
      BY <2>3, <3>3 DEF SpeakOf
    <3> QED
      BY <1>7, <2>1, <3>1, <3>3, <3>4 DEF Phases
  <2> QED
    BY <1>0, <2>2, <2>3
<1>9. ASSUME NEW r \in Requests, Waits(r), Dropped(r) PROVE SpeakInv'
  <2>1. /\ kind' = kind /\ lines' = lines /\ peer' = peer
        /\ hops' = [hops EXCEPT ![r] = Kept(r)]
        /\ phase' = [phase EXCEPT ![r] = "failed"]
    BY <1>9 DEF Dropped, SetPhase
  <2>2. SpeakOf(lines[r], hops'[r], "failed", kind[r]) /\ lines[r] \in Seq(Line)
    BY <1>0, <1>9 DEF Waits, Attached, SpeakInv, SpeakOf
  <2> QED
    BY <1>0, <1>2, <2>1, <2>2
<1>10. ASSUME NEW r \in Requests, Fallback(r) PROVE SpeakInv'
  <2>1. /\ phase[r] = "failed" /\ kind' = kind /\ hops' = hops /\ peer' = peer
        /\ phase' = [phase EXCEPT ![r] = "instead"]
        /\ lines[r] \in Seq(Line) /\ Truthful(lines[r])
        /\ kind[r] = "once" => lines[r] = <<>>
    BY <1>0, <1>10 DEF Fallback, SetPhase, SpeakInv, SpeakOf
  <2>2. CASE kind[r] = "once"
    <3>1. lines' = [lines EXCEPT ![r] = <<>>] /\ <<>> \in Seq(Line)
      BY <1>0, <1>10, <2>1, <2>2 DEF Fallback
    <3>2. SpeakOf(<<>>, hops[r], "instead", kind[r])
      BY SilentIsTruthful
    <3> QED
      BY <1>7, <2>1, <3>1, <3>2 DEF Phases
  <2>3. CASE kind[r] = "stream"
    <3>1. lines' = [lines EXCEPT ![r] = Append(lines[r], Note)]
      BY <1>0, <1>10, <2>3 DEF Fallback, Sent
    <3>2. /\ Truthful(Append(lines[r], Note)) /\ Append(lines[r], Note) \in Seq(Line)
          /\ Append(lines[r], Note)[Len(Append(lines[r], Note))] = Note
      BY <2>1, LineTypes, TruthfulAppend
    <3>3. SpeakOf(Append(lines[r], Note), hops[r], "instead", kind[r])
      BY <2>3, <3>2 DEF SpeakOf
    <3> QED
      BY <1>7, <2>1, <3>1, <3>2, <3>3 DEF Phases
  <2> QED
    BY <1>0, <2>2, <2>3
\* The last of the nodes that handle a request.
<1>11. ASSUME NEW r \in Requests, phase[r] # "new"
       PROVE  /\ Last(hops[r]) = hops[r][Len(hops[r])] /\ Last(hops[r]) \in Nodes
              /\ Len(hops[r]) = 1 \/ Len(hops[r]) = 2
              /\ Head(hops[r]) = hops[r][1]
  <2>1. /\ hops[r] \in Seq(Nodes) /\ Len(hops[r]) \in Nat
        /\ 1 <= Len(hops[r]) /\ Len(hops[r]) <= 2
    BY <1>11 DEF HopInv
  <2>2. Last(hops[r]) = hops[r][Len(hops[r])] /\ Last(hops[r]) \in Nodes
    BY <2>1 DEF Last
  <2>3. Len(hops[r]) = 1 \/ Len(hops[r]) = 2
    <3> DEFINE l == Len(hops[r])
    <3>1. l \in Nat /\ 1 <= l /\ l <= 2
      BY <2>1
    <3> HIDE DEF l
    <3>2. l = 1 \/ l = 2
      BY <3>1
    <3> QED
      BY <3>2 DEF l
  <2>4. Head(hops[r]) = hops[r][1]
    BY <2>1
  <2> QED
    BY <2>2, <2>3, <2>4
<1>12. ASSUME NEW r \in Requests, Answer(r) PROVE SpeakInv'
  <2> DEFINE n == Last(hops[r])
             s == <<Text(n, 1), Done(n)>>
  <2>1. /\ kind[r] = "once" /\ kind' = kind /\ hops' = hops /\ peer' = peer
        /\ phase' = [phase EXCEPT ![r] = "ended"]
        /\ phase[r] # "new"
        /\ lines' = [lines EXCEPT ![r] =
             <<Text(n, 1), Done(IF Len(hops[r]) = 1 THEN Head(hops[r]) ELSE hops[r][2])>>]
    BY <1>12 DEF Answer, AtWork, SetPhase
  <2>2. n = IF Len(hops[r]) = 1 THEN Head(hops[r]) ELSE hops[r][2]
    BY <1>11, <2>1
  <2>3. lines' = [lines EXCEPT ![r] = s] /\ n \in Nodes
    BY <1>11, <2>1, <2>2
  <2>4. /\ Text(n, 1) \in Line /\ Text(n, 1).type = "t" /\ Text(n, 1).by = n
        /\ Done(n) \in Line /\ Done(n).by = n
    BY <2>3, LineTypes
  <2> HIDE DEF n
  <2>5. s \in Seq(Line) /\ DOMAIN s = 1 .. 2 /\ s[1] = Text(n, 1) /\ s[2] = Done(n)
    BY <2>4
  <2>6. Truthful(s)
    BY <2>4, <2>5 DEF Truthful
  <2>7. SpeakOf(s, hops[r], "ended", kind[r])
    BY <2>6 DEF SpeakOf
  <2> QED
    BY <1>7, <2>1, <2>3, <2>5, <2>7 DEF Phases
<1>13. ASSUME NEW r \in Requests, Stream(r) PROVE SpeakInv'
  <2> DEFINE n == SinceNote(lines[r])
             e == Text(Last(hops[r]), n + 1)
  <2>1. /\ kind[r] = "stream" /\ n < Chunks
        /\ phase[r] \in {"answering", "instead"} /\ phase' = phase
        /\ kind' = kind /\ hops' = hops /\ peer' = peer
        /\ lines' = [lines EXCEPT ![r] = Append(lines[r], e)]
    BY <1>0, <1>13 DEF Stream, AtWork, Sent
  <2>2. lines[r] \in Seq(Line) /\ Truthful(lines[r]) /\ n \in Nat
    BY <1>0, SinceNoteCounts DEF SpeakInv, SpeakOf
  <2>3. n + 1 \in 0 .. Chunks /\ Last(hops[r]) \in Nodes
    BY <1>11, <2>1, <2>2
  <2>4. e \in Line /\ e.type = "t" /\ e.by = hops[r][Len(hops[r])]
    BY <1>11, <2>1, <2>3, LineTypes
  <2> HIDE DEF e
  <2>5. /\ Truthful(Append(lines[r], e)) /\ Append(lines[r], e) \in Seq(Line)
        /\ Append(lines[r], e)[Len(Append(lines[r], e))] = e
    BY <2>2, <2>4, TruthfulAppend
  <2>6. SpeakOf(Append(lines[r], e), hops[r], phase[r], kind[r])
    BY <2>1, <2>4, <2>5 DEF SpeakOf
  <2> QED
    BY <1>2, <2>1, <2>5, <2>6
<1>14. ASSUME NEW r \in Requests, ModelFails(r) PROVE SpeakInv'
  <2> DEFINE e == Fault(Last(hops[r]))
  <2>1. /\ kind[r] = "stream"
        /\ phase[r] \in {"answering", "instead"} /\ phase' = phase
        /\ kind' = kind /\ hops' = hops /\ peer' = peer
        /\ lines' = [lines EXCEPT ![r] = Append(lines[r], e)]
    BY <1>0, <1>14 DEF ModelFails, AtWork, Sent
  <2>2. lines[r] \in Seq(Line) /\ Truthful(lines[r])
    BY <1>0 DEF SpeakInv, SpeakOf
  <2>3. e \in Line /\ e.type = "t" /\ e.by = hops[r][Len(hops[r])]
    BY <1>11, <2>1, LineTypes DEF Fault
  <2> HIDE DEF e
  <2>4. /\ Truthful(Append(lines[r], e)) /\ Append(lines[r], e) \in Seq(Line)
        /\ Append(lines[r], e)[Len(Append(lines[r], e))] = e
    BY <2>2, <2>3, TruthfulAppend
  <2>5. SpeakOf(Append(lines[r], e), hops[r], phase[r], kind[r])
    BY <2>1, <2>3, <2>4 DEF SpeakOf
  <2> QED
    BY <1>2, <2>1, <2>4, <2>5
<1>15. ASSUME NEW r \in Requests, Leave(r) PROVE SpeakInv'
  <2>1. /\ kind[r] = "stream" /\ kind' = kind
        /\ phase' = [phase EXCEPT ![r] = "lost"]
        /\ hops' = hops /\ peer' = peer /\ lines' = lines
    BY <1>15 DEF Leave, SetPhase
  <2>2. lines' = [lines EXCEPT ![r] = lines[r]] /\ lines[r] \in Seq(Line)
    BY <1>0, <2>1
  <2>3. SpeakOf(lines[r], hops[r], "lost", kind[r])
    BY <2>1 DEF SpeakInv, SpeakOf
  <2> QED
    BY <1>7, <2>1, <2>2, <2>3 DEF Phases
<1>16. ASSUME NEW r \in Requests, Finish(r) PROVE SpeakInv'
  <2> DEFINE n == IF phase[r] = "instead" THEN Nobody ELSE Last(hops[r])
             e == Done(n)
  <2>1. /\ kind[r] = "stream"
        /\ SinceNote(lines[r]) >= Chunks \/ Faulty(lines[r])
        /\ phase[r] \in {"answering", "instead"}
        /\ phase' = [phase EXCEPT ![r] = "closing"]
        /\ kind' = kind /\ hops' = hops /\ peer' = peer
        /\ lines' = [lines EXCEPT ![r] = Append(lines[r], e)]
    BY <1>0, <1>16 DEF Finish, AtWork, Sent, SetPhase
  <2>2. /\ lines[r] \in Seq(Line) /\ Truthful(lines[r])
        /\ SpeakOf(lines[r], hops[r], phase[r], kind[r])
    BY <1>0 DEF SpeakInv, SpeakOf
  <2>3. lines[r] # <<>> /\ lines[r][Len(lines[r])] # Note
    <3>1. CASE SinceNote(lines[r]) >= Chunks
      <4>1. SinceNote(lines[r]) > 0
        BY <2>2, <3>1, SinceNoteCounts
      <4> QED
        BY <2>2, <4>1, SinceNoteCounts
    <3>2. CASE Faulty(lines[r])
      BY <3>2, LineTypes DEF Faulty, Last
    <3> QED
      BY <2>1, <3>1, <3>2
  <2>5. lines[r][Len(lines[r])].type = "t" /\ lines[r][Len(lines[r])].by = Last(hops[r])
    BY <1>11, <2>1, <2>2, <2>3 DEF SpeakOf
  <2>6. n \in Nodes \cup {Nobody}
    BY <1>11, <2>1
  <2>7. e \in Line /\ e.type = "done" /\ e.by = n
    BY <2>6, LineTypes
  <2>8. e.by # Nobody => e.by = Last(hops[r])
    BY <2>7
  <2> HIDE DEF e
  <2>9. Truthful(Append(lines[r], e)) /\ Append(lines[r], e) \in Seq(Line)
    BY <2>2, <2>3, <2>5, <2>7, <2>8, TruthfulAppend
  <2>10. SpeakOf(Append(lines[r], e), hops[r], "closing", kind[r])
    BY <2>1, <2>9 DEF SpeakOf
  <2> QED
    BY <1>7, <2>1, <2>9, <2>10 DEF Phases
<1>17. ASSUME NEW r \in Requests, Close(r) PROVE SpeakInv'
  <2>1. /\ phase' = [phase EXCEPT ![r] = "ended"]
        /\ kind' = kind /\ hops' = hops /\ peer' = peer /\ lines' = lines
    BY <1>17 DEF Close, SetPhase
  <2>2. lines' = [lines EXCEPT ![r] = lines[r]] /\ lines[r] \in Seq(Line)
    BY <1>0, <2>1
  <2>3. SpeakOf(lines[r], hops[r], "ended", kind[r])
    BY DEF SpeakInv, SpeakOf
  <2> QED
    BY <1>7, <2>1, <2>2, <2>3 DEF Phases
<1>18. ASSUME NEW n \in Nodes, Crash(n) PROVE SpeakInv'
  <2>1. /\ peer' = peer /\ kind' = kind /\ lines' = lines
        /\ phase' = [r \in Requests |->
                 IF hops[r] # <<>> /\ At(n, r, 1) THEN "lost"
                 ELSE IF Behind(n, r) \/ (Attached(r) /\ peer[r] = n) THEN "failed"
                 ELSE phase[r]]
        /\ hops' = [r \in Requests |->
                 IF hops[r] # <<>> /\ ~ At(n, r, 1) /\ Behind(n, r)
                 THEN Cut(n, r) ELSE hops[r]]
    BY <1>18, CrashIs
  <2>2. ASSUME NEW r \in Requests
        PROVE  /\ SpeakOf(lines[r], hops'[r], phase'[r], kind[r])
               /\ phase'[r] = "sending" => peer[r] # Last(hops'[r])
    <3>1. CASE phase'[r] \in {"lost", "failed"} /\ phase[r] # "ended"
      BY <3>1 DEF SpeakInv, SpeakOf
    <3>2. CASE phase'[r] = phase[r] /\ hops'[r] = hops[r]
      BY <3>2 DEF SpeakInv
    <3>3. \/ phase'[r] \in {"lost", "failed"} /\ phase[r] # "ended"
          \/ phase'[r] = phase[r] /\ hops'[r] = hops[r]
      BY <2>1 DEF Attached, At, Behind
    <3> QED
      BY <3>1, <3>2, <3>3
  <2> QED
    BY <1>0, <2>1, <2>2 DEF SpeakInv
<1>19. ASSUME NEW r \in Requests, Handle(r) \/ Break(r) PROVE SpeakInv'
  <2>1. CASE Unreachable(r) \/ TimeOut(r) \/ Break(r)
    BY <1>9, <2>1 DEF Unreachable, TimeOut, Break, Waits, Attached
  <2> QED
    BY <1>5, <1>6, <1>8, <1>10, <1>12, <1>13, <1>16, <1>17, <1>19, <1>14, <2>1 DEF Handle
<1>20. ASSUME NEW n \in Nodes, Hang(n) \/ Recover(n) PROVE SpeakInv'
  BY <1>1, <1>20 DEF Hang, Recover
<1>21. ASSUME NEW n \in Nodes, NEW m \in Nodes, Greet(n, m) \/ AgeOut(n, m) PROVE SpeakInv'
  BY <1>1, <1>21 DEF Greet, AgeOut
<1>22. ASSUME NEW n \in Nodes, NEW S \in SUBSET Models, Refresh(n, S) PROVE SpeakInv'
  BY <1>1, <1>22 DEF Refresh
<1>23. CASE UNCHANGED vars
  BY <1>1, <1>23 DEF vars
<1> QED
  BY <1>4, <1>18, <1>19, <1>20, <1>21, <1>22, <1>23, <1>15 DEF Next

-----------------------------------------------------------------------------
\* After b lines, of which the last is a note, come the first k of the reply of n.
Spoken(n, s, b, k) ==
    /\ b # 0 => s[b] = Note
    /\ \A i \in 1 .. k : s[b + i] = Text(n, i)

\* The reply of n is on its way: so many lines of it, and perhaps an error.
Talking(n, s) ==
    \E b \in 0 .. Len(s), k \in 0 .. Chunks :
        /\ Spoken(n, s, b, k)
        /\ \/ Len(s) = b + k
           \/ Len(s) = b + k + 1 /\ s[b + k + 1] = Fault(n)

\* The reply of n has ended: all lines of it or an error, and the last one.
Finished(n, s) ==
    \E b \in 0 .. Len(s), k \in 0 .. Chunks :
        /\ Spoken(n, s, b, k)
        /\ \/ k = Chunks /\ Len(s) = b + k + 1
           \/ Len(s) = b + k + 2 /\ s[b + k + 1] = Fault(n)
        /\ s[Len(s)] \in {Done(n), Done(Nobody)}

\* What a client has got of a stream that hs handle: the reply of the last of them,
\* and only of the first if another has failed.
PartOf(s, hs, p, k) == k = "stream" =>
    /\ p \in {"failed", "instead"} => Len(hs) = 1
    /\ p = "answering" => \A i \in 1 .. Len(s) : s[i] # Note
    /\ p \in {"answering", "instead"} => Talking(hs[Len(hs)], s)
    /\ p \in {"closing", "ended"} =>
          \/ s = <<Junk>> /\ Len(hs) = 1
          \/ /\ Finished(hs[Len(hs)], s)
             /\ Len(hs) # 1 => \A i \in 1 .. Len(s) : s[i] # Note

PartInv == \A r \in Requests : PartOf(lines[r], hops[r], phase[r], kind[r])

LEMMA LinesDiffer ==
    ASSUME NEW n \in Nodes, NEW i \in 0 .. Chunks
    PROVE  /\ Text(n, i) # Note /\ Text(n, i).nr = i /\ Text(n, i).type = "t"
           /\ Fault(n) # Note /\ Fault(n).nr = 0 /\ Fault(n).type = "t"
           /\ Fault(n) \in Line /\ Note.type # "t"
  BY LineTypes DEF Text, Fault, Note, Line

LEMMA LastLinesDiffer ==
    ASSUME NEW n \in Nodes \cup {Nobody}
    PROVE  Done(n) # Note /\ Done(n) # Junk /\ Done(n) \in Line
<1>1. Done(n).type = "done" /\ Note.type = "note" /\ Junk.type = "junk" /\ Done(n) \in Line
  BY LineTypes
<1> QED
  BY <1>1

LEMMA LineAppended ==
    ASSUME NEW s \in Seq(Line), NEW e \in Line
    PROVE  /\ Append(s, e) \in Seq(Line) /\ Len(s) \in Nat
           /\ Len(Append(s, e)) = Len(s) + 1 /\ Append(s, e)[Len(s) + 1] = e
           /\ \A i \in 1 .. Len(s) : Append(s, e)[i] = s[i]
  BY AppendProperties, LenProperties

\* What is counted are the lines after the last note.
LEMMA SinceNoteIs ==
    ASSUME NEW s \in Seq(Line), NEW b \in 0 .. Len(s),
           b # 0 => s[b] = Note, \A k \in b + 1 .. Len(s) : s[k] # Note
    PROVE  SinceNote(s) = Len(s) - b
<1>1. Len(s) \in Nat /\ DOMAIN s = 1 .. Len(s)
  BY LenProperties
<1>2. {j \in DOMAIN s : \A k \in j .. Len(s) : s[k] # Note} = b + 1 .. Len(s)
  <2>1. ASSUME NEW j \in 1 .. Len(s), \A k \in j .. Len(s) : s[k] # Note
        PROVE  j \in b + 1 .. Len(s)
    <3> SUFFICES ASSUME j <= b PROVE FALSE
      BY <1>1
    <3>1. b # 0 /\ b \in j .. Len(s)
      BY <1>1
    <3> QED
      BY <2>1, <3>1
  <2>2. ASSUME NEW j \in b + 1 .. Len(s)
        PROVE  j \in 1 .. Len(s) /\ \A k \in j .. Len(s) : k \in b + 1 .. Len(s)
    BY <1>1
  <2> QED
    BY <1>1, <2>1, <2>2
<1>3. Cardinality(b + 1 .. Len(s)) = Len(s) - b
  <2>1. b + 1 \in Int /\ Len(s) \in Int
    BY <1>1
  <2>2. Cardinality(b + 1 .. Len(s)) = IF b + 1 > Len(s) THEN 0 ELSE Len(s) - (b + 1) + 1
    BY <2>1, FS_Interval
  <2> QED
    BY <1>1, <2>2
<1> QED
  BY <1>2, <1>3 DEF SinceNote

\* A reply on its way is either without an error, and its lines are counted, or
\* ends with one.
LEMMA TalkingIs ==
    ASSUME NEW n \in Nodes, NEW s \in Seq(Line), Talking(n, s)
    PROVE  \E b \in 0 .. Len(s), k \in 0 .. Chunks :
              /\ Spoken(n, s, b, k)
              /\ \/ ~ Faulty(s) /\ Len(s) = b + k /\ SinceNote(s) = k
                 \/ Faulty(s) /\ Len(s) = b + k + 1 /\ s[b + k + 1] = Fault(n)
<1>1. PICK b \in 0 .. Len(s), k \in 0 .. Chunks :
        /\ Spoken(n, s, b, k)
        /\ \/ Len(s) = b + k
           \/ Len(s) = b + k + 1 /\ s[b + k + 1] = Fault(n)
  BY DEF Talking
<1>2. Len(s) \in Nat /\ (s # <<>> <=> Len(s) > 0) /\ Last(s) = s[Len(s)]
  BY LenProperties, EmptySeq DEF Last
<1>3. \A i \in 1 .. k : s[b + i] = Text(n, i) /\ i \in 0 .. Chunks
  BY <1>1 DEF Spoken
<1>4. CASE Len(s) = b + k
  <2>1. ~ Faulty(s)
    <3>1. CASE k = 0
      <4>1. Len(s) > 0 => s[Len(s)] = Note
        BY <1>1, <1>4, <3>1 DEF Spoken
      <4> QED
        BY <1>2, <4>1, LinesDiffer DEF Faulty
    <3>2. CASE k # 0
      <4>1. s[b + k] = Text(n, k) /\ k \in 0 .. Chunks
        BY <1>3, <3>2
      <4>2. Text(n, k).nr = k
        BY <4>1, LinesDiffer
      <4> QED
        BY <1>2, <1>4, <3>2, <4>1, <4>2 DEF Faulty
    <3> QED
      BY <3>1, <3>2
  <2>2. ASSUME NEW j \in b + 1 .. Len(s) PROVE s[j] # Note
    <3>1. j - b \in 1 .. k /\ b + (j - b) = j
      BY <1>2, <1>4
    <3>2. s[j] = Text(n, j - b) /\ j - b \in 0 .. Chunks
      BY <1>3, <3>1
    <3> QED
      BY <3>2, LinesDiffer
  <2>3. SinceNote(s) = k
    <3>1. SinceNote(s) = Len(s) - b
      BY <1>1, <2>2, SinceNoteIs DEF Spoken
    <3> QED
      BY <1>4, <3>1
  <2> QED
    BY <1>1, <1>4, <2>1, <2>3
<1>5. CASE Len(s) = b + k + 1 /\ s[b + k + 1] = Fault(n)
  <2>1. Last(s) = Fault(n) /\ s # <<>>
    BY <1>2, <1>5
  <2>2. Faulty(s)
    BY <2>1, LinesDiffer DEF Faulty
  <2> QED
    BY <1>1, <1>5, <2>2
<1> QED
  BY <1>1, <1>4, <1>5

\* How a reply goes on: its next line, ...
LEMMA TalkingOn ==
    ASSUME NEW n \in Nodes, NEW s \in Seq(Line), Talking(n, s), ~ Faulty(s),
           SinceNote(s) < Chunks
    PROVE  Talking(n, Append(s, Text(n, SinceNote(s) + 1)))
<1>1. PICK b \in 0 .. Len(s), k \in 0 .. Chunks :
           Spoken(n, s, b, k) /\ Len(s) = b + k /\ SinceNote(s) = k
  BY TalkingIs
<1>2. k + 1 \in 0 .. Chunks /\ Text(n, k + 1) \in Line
  BY <1>1, LineTypes
<1> DEFINE t == Append(s, Text(n, k + 1))
<1>3. /\ Len(s) \in Nat /\ Len(t) = Len(s) + 1 /\ t[Len(s) + 1] = Text(n, k + 1)
      /\ \A i \in 1 .. Len(s) : t[i] = s[i]
  BY <1>2, LineAppended
<1> HIDE DEF t
<1>4. b \in 0 .. Len(t) /\ Len(t) = b + (k + 1)
  BY <1>1, <1>3
<1>5. b # 0 => t[b] = Note
  BY <1>1, <1>3 DEF Spoken
<1>6. ASSUME NEW i \in 1 .. k + 1 PROVE t[b + i] = Text(n, i)
  <2>1. CASE i = k + 1
    <3>1. b + i = Len(s) + 1
      BY <1>1, <2>1
    <3> QED
      BY <1>3, <2>1, <3>1
  <2>2. CASE i # k + 1
    <3>1. i \in 1 .. k /\ b + i \in 1 .. Len(s)
      BY <1>1, <2>2
    <3> QED
      BY <1>1, <1>3, <3>1 DEF Spoken
  <2> QED
    BY <2>1, <2>2
<1>7. Talking(n, t)
  BY <1>2, <1>4, <1>5, <1>6 DEF Talking, Spoken
<1> QED
  BY <1>1, <1>7 DEF t

\* ... an error, ...
LEMMA TalkingFault ==
    ASSUME NEW n \in Nodes, NEW s \in Seq(Line), Talking(n, s), ~ Faulty(s)
    PROVE  Talking(n, Append(s, Fault(n)))
<1>1. PICK b \in 0 .. Len(s), k \in 0 .. Chunks :
           Spoken(n, s, b, k) /\ Len(s) = b + k
  BY TalkingIs
<1>2. Fault(n) \in Line
  BY LineTypes DEF Fault
<1> DEFINE t == Append(s, Fault(n))
<1>3. /\ Len(s) \in Nat /\ Len(t) = Len(s) + 1 /\ t[Len(s) + 1] = Fault(n)
      /\ \A i \in 1 .. Len(s) : t[i] = s[i]
  BY <1>2, LineAppended
<1> HIDE DEF t
<1>4. b \in 0 .. Len(t) /\ Len(t) = b + k + 1 /\ t[b + k + 1] = Fault(n)
  BY <1>1, <1>3
<1>5. \A i \in 1 .. k : b + i \in 1 .. Len(s)
  BY <1>1, <1>3
<1>6. Spoken(n, t, b, k)
  <2>1. b # 0 => t[b] = Note
    <3>1. b # 0 => b \in 1 .. Len(s)
      BY <1>3
    <3> QED
      BY <1>1, <1>3, <3>1 DEF Spoken
  <2>2. \A i \in 1 .. k : t[b + i] = Text(n, i)
    BY <1>1, <1>3, <1>5 DEF Spoken
  <2> QED
    BY <2>1, <2>2 DEF Spoken
<1>7. Talking(n, t)
  BY <1>4, <1>6 DEF Talking
<1> QED
  BY <1>7 DEF t

\* ... or its last line.
LEMMA TalkingDone ==
    ASSUME NEW n \in Nodes, NEW s \in Seq(Line), Talking(n, s),
           SinceNote(s) >= Chunks \/ Faulty(s), NEW d \in {Done(n), Done(Nobody)}
    PROVE  Finished(n, Append(s, d))
<1>1. PICK b \in 0 .. Len(s), k \in 0 .. Chunks :
        /\ Spoken(n, s, b, k)
        /\ \/ ~ Faulty(s) /\ Len(s) = b + k /\ SinceNote(s) = k
           \/ Faulty(s) /\ Len(s) = b + k + 1 /\ s[b + k + 1] = Fault(n)
  BY TalkingIs
<1>2. d \in Line
  BY LineTypes
<1> DEFINE t == Append(s, d)
<1>3. /\ Len(s) \in Nat /\ Len(t) = Len(s) + 1 /\ t[Len(s) + 1] = d
      /\ \A i \in 1 .. Len(s) : t[i] = s[i]
  BY <1>2, LineAppended
<1> HIDE DEF t
<1>4. b \in 0 .. Len(t) /\ t[Len(t)] = d
  BY <1>1, <1>3
<1>5. \A i \in 1 .. k : b + i \in 1 .. Len(s)
  BY <1>1, <1>3
<1>6. Spoken(n, t, b, k)
  <2>1. b # 0 => t[b] = Note
    <3>1. b # 0 => b \in 1 .. Len(s)
      BY <1>3
    <3> QED
      BY <1>1, <1>3, <3>1 DEF Spoken
  <2>2. \A i \in 1 .. k : t[b + i] = Text(n, i)
    BY <1>1, <1>3, <1>5 DEF Spoken
  <2> QED
    BY <2>1, <2>2 DEF Spoken
<1>7. \/ k = Chunks /\ Len(t) = b + k + 1
      \/ Len(t) = b + k + 2 /\ t[b + k + 1] = Fault(n)
  <2>1. CASE ~ Faulty(s) /\ Len(s) = b + k /\ SinceNote(s) = k
    BY <1>1, <1>3, <2>1
  <2>2. CASE Faulty(s) /\ Len(s) = b + k + 1 /\ s[b + k + 1] = Fault(n)
    <3>1. b + k + 1 \in 1 .. Len(s)
      BY <1>1, <1>3, <2>2
    <3> QED
      BY <1>3, <2>2, <3>1
  <2> QED
    BY <1>1, <2>1, <2>2
<1>8. Finished(n, t)
  BY <1>4, <1>6, <1>7 DEF Finished
<1> QED
  BY <1>8 DEF t

\* Nobody has said anything yet, or since the note.
LEMMA TalkingStarts ==
    ASSUME NEW n, NEW s \in Seq(Line)
    PROVE  Talking(n, <<>>) /\ Talking(n, Append(s, Note))
<1>1. Talking(n, <<>>)
  <2>1. Len(<<>>) = 0 /\ 0 \in 0 .. 0 /\ 0 \in 0 .. Chunks
    OBVIOUS
  <2>2. Spoken(n, <<>>, 0, 0)
    BY DEF Spoken
  <2> QED
    BY <2>1, <2>2 DEF Talking
<1>2. Talking(n, Append(s, Note))
  <2> DEFINE t == Append(s, Note)
             b == Len(s) + 1
  <2>1. Len(s) \in Nat /\ Len(t) = Len(s) + 1 /\ t[Len(s) + 1] = Note
    BY LineTypes, LineAppended
  <2>2. b \in 0 .. Len(t) /\ 0 \in 0 .. Chunks /\ Len(t) = b + 0 /\ t[b] = Note
    BY <2>1
  <2> HIDE DEF t, b
  <2>3. Spoken(n, t, b, 0)
    BY <2>2 DEF Spoken
  <2>4. Talking(n, t)
    BY <2>2, <2>3 DEF Talking
  <2> QED
    BY <2>4 DEF t
<1> QED
  BY <1>1, <1>2

\* A reply that has ended is whole, or says that it is not.
LEMMA FinishedIsWhole ==
    ASSUME NEW n \in Nodes, NEW s \in Seq(Line), Finished(n, s)
    PROVE  WholeReply(n, LastPart(s))
<1>1. PICK b \in 0 .. Len(s), k \in 0 .. Chunks :
        /\ Spoken(n, s, b, k)
        /\ \/ k = Chunks /\ Len(s) = b + k + 1
           \/ Len(s) = b + k + 2 /\ s[b + k + 1] = Fault(n)
        /\ s[Len(s)] \in {Done(n), Done(Nobody)}
  BY DEF Finished
<1>2. Len(s) \in Nat
  BY LenProperties
<1>3. \A i \in 1 .. k : s[b + i] = Text(n, i) /\ i \in 0 .. Chunks /\ Text(n, i) \in Line
  BY <1>1, LineTypes DEF Spoken
<1>4. ASSUME NEW j \in b + 1 .. Len(s) PROVE s[j] # Note
  <2>1. CASE j = Len(s)
    BY <1>1, <2>1, LastLinesDiffer
  <2>2. CASE j - b \in 1 .. k
    <3>1. b + (j - b) = j
      BY <1>2
    <3>2. s[j] = Text(n, j - b) /\ j - b \in 0 .. Chunks
      BY <1>3, <2>2, <3>1
    <3> QED
      BY <3>2, LinesDiffer
  <2>3. CASE j = b + k + 1 /\ s[b + k + 1] = Fault(n)
    BY <2>3, LinesDiffer
  <2>4. j = Len(s) \/ j - b \in 1 .. k \/ (j = b + k + 1 /\ s[b + k + 1] = Fault(n))
    BY <1>1, <1>2
  <2> QED
    BY <2>1, <2>2, <2>3, <2>4
<1>5. SinceNote(s) = Len(s) - b
  BY <1>1, <1>4, SinceNoteIs DEF Spoken
<1> DEFINE part == LastPart(s)
           front == Front(part)
           said == [i \in 1 .. k |-> Text(n, i)]
<1>6. /\ part \in Seq(Line) /\ Len(part) = Len(s) - b
      /\ \A i \in 1 .. Len(s) - b : part[i] = s[b + i]
  <2>1. Len(s) - SinceNote(s) + 1 = b + 1
    BY <1>2, <1>5
  <2>2. part = SubSeq(s, b + 1, Len(s))
    BY <2>1 DEF LastPart
  <2>3. b + 1 \in 1 .. Len(s) + 1 /\ Len(s) \in b .. Len(s) /\ b + 1 <= Len(s)
    BY <1>1, <1>2
  <2>4. \A i \in b + 1 .. Len(s) : s[i] \in Line
    BY <1>2, ElementOfSeq
  <2> HIDE DEF part
  <2>5. /\ part \in Seq(Line) /\ Len(part) = Len(s) - (b + 1) + 1
        /\ \A i \in 1 .. Len(s) - (b + 1) + 1 : part[i] = s[(b + 1) + i - 1]
    BY <1>2, <2>2, <2>3, SubSeqProperties
  <2>6. \A i \in 1 .. Len(s) - b : (b + 1) + i - 1 = b + i
    BY <1>2
  <2>7. Len(s) - (b + 1) + 1 = Len(s) - b
    BY <1>2
  <2> QED
    BY <2>5, <2>6, <2>7
<1> HIDE DEF part
<1>7. /\ Len(part) \in Nat /\ Len(part) >= 1
      /\ \/ Len(part) = k + 1 /\ k = Chunks
         \/ Len(part) = k + 2 /\ s[b + k + 1] = Fault(n)
  <2>1. Len(part) = Len(s) - b
    BY <1>6
  <2>2. CASE k = Chunks /\ Len(s) = b + k + 1
    BY <1>2, <2>1, <2>2
  <2>3. CASE Len(s) = b + k + 2 /\ s[b + k + 1] = Fault(n)
    BY <1>2, <2>1, <2>3
  <2> QED
    BY <1>1, <2>2, <2>3
<1>8. Last(part) \in {Done(n), Done(Nobody)}
  <2>1. Len(part) \in 1 .. Len(s) - b /\ b + Len(part) = Len(s)
    BY <1>2, <1>6, <1>7
  <2> QED
    BY <1>1, <1>6, <2>1 DEF Last
<1>9. /\ front \in Seq(Line) /\ Len(front) = Len(part) - 1
      /\ \A i \in 1 .. Len(part) - 1 : front[i] = part[i]
  <2>1. front = SubSeq(part, 1, Len(part) - 1)
    BY DEF Front
  <2> HIDE DEF front
  <2>2. /\ front \in Seq(Line) /\ Len(front) = (Len(part) - 1) - 1 + 1
        /\ \A i \in 1 .. (Len(part) - 1) - 1 + 1 : front[i] = part[1 + i - 1]
    BY <1>6, <1>7, <2>1, SubSeqProperties
  <2>3. (Len(part) - 1) - 1 + 1 = Len(part) - 1
    BY <1>7
  <2>4. \A i \in 1 .. Len(part) - 1 : 1 + i - 1 = i
    OBVIOUS
  <2> QED
    BY <2>2, <2>3, <2>4
<1>10. said \in Seq(Line) /\ Len(said) = k /\ \A i \in 1 .. k : said[i] = Text(n, i)
  <2>1. said \in [1 .. k -> Line] /\ k \in Nat
    BY <1>3
  <2>2. DOMAIN said = 1 .. k
    OBVIOUS
  <2>3. said \in Seq(Line)
    BY <2>1
  <2>4. Len(said) = k
    <3> HIDE DEF said
    <3> QED
      BY <2>1, <2>2, <2>3, LenProperties
  <2> QED
    BY <2>3, <2>4
<1>11. \A i \in 1 .. k : front[i] = Text(n, i)
  <2> TAKE i \in 1 .. k
  <2>1. i \in 1 .. Len(part) - 1 /\ i \in 1 .. Len(s) - b
    BY <1>2, <1>6, <1>7
  <2> QED
    BY <1>3, <1>6, <1>9, <2>1
<1> HIDE DEF said, front
<1>12. CASE Len(part) = k + 1 /\ k = Chunks
  <2>1. Len(front) = Len(said) /\ \A i \in 1 .. Len(front) : front[i] = said[i]
    BY <1>7, <1>9, <1>10, <1>11, <1>12
  <2>2. front = said
    BY <1>9, <1>10, <2>1, SeqEqual
  <2> QED
    BY <1>8, <1>12, <2>2 DEF WholeReply, front, said, part
<1>13. CASE Len(part) = k + 2 /\ s[b + k + 1] = Fault(n)
  <2> DEFINE all == Append(said, Fault(n))
  <2>1. Fault(n) \in Line
    BY LinesDiffer
  <2>2. /\ all \in Seq(Line) /\ Len(all) = k + 1 /\ all[k + 1] = Fault(n)
        /\ \A i \in 1 .. k : all[i] = said[i]
    BY <1>10, <2>1, LineAppended
  <2> HIDE DEF all
  <2>3. front[k + 1] = Fault(n)
    <3>1. k + 1 \in 1 .. Len(part) - 1 /\ k + 1 \in 1 .. Len(s) - b /\ b + (k + 1) = b + k + 1
      BY <1>2, <1>6, <1>13
    <3> QED
      BY <1>6, <1>9, <1>13, <3>1
  <2>4. \A i \in 1 .. k + 1 : front[i] = all[i]
    <3> TAKE i \in 1 .. k + 1
    <3>1. CASE i = k + 1
      BY <2>2, <2>3, <3>1
    <3>2. CASE i # k + 1
      <4>1. i \in 1 .. k
        BY <3>2
      <4> QED
        BY <1>10, <1>11, <2>2, <4>1
    <3> QED
      BY <3>1, <3>2
  <2>5. Len(front) = k + 1
    BY <1>9, <1>13
  <2>6. front = all
    BY <1>9, <2>2, <2>4, <2>5, SeqEqual
  <2> QED
    BY <1>8, <2>6 DEF WholeReply, front, all, said, part
<1> QED
  BY <1>7, <1>12, <1>13

\* A request of which nothing has been said.
LEMMA NothingSaid ==
    ASSUME NEW hs, NEW k, NEW p \in {"routing", "sending", "answering"}
    PROVE  PartOf(<<>>, hs, p, k)
<1>1. Talking(hs[Len(hs)], <<>>)
  <2>1. <<>> \in Seq(Line)
    OBVIOUS
  <2> QED
    BY <2>1, TalkingStarts
<1>2. \A i \in 1 .. Len(<<>>) : <<>>[i] # Note
  OBVIOUS
<1> QED
  BY <1>1, <1>2 DEF PartOf

\* Of a stream only the node that was asked is left when a peer drops out.
LEMMA OnlyTheFirstIsLeft ==
    ASSUME HopInv, PartInv, NEW r \in Requests, kind[r] = "stream"
    PROVE  /\ Attached(r) => Len(hops[r]) = 1
           /\ Waits(r) => Len(Kept(r)) = 1
<1>1. hops[r] \in Seq(Nodes) /\ Len(hops[r]) \in Nat /\ Len(hops[r]) <= 2
  BY DEF HopInv
<1>2. ASSUME Attached(r) PROVE Len(hops[r]) = 1
  <2>1. CASE phase[r] = "sending"
    BY <2>1 DEF HopInv
  <2>2. CASE phase[r] = "closing" /\ Last(lines[r]) = Junk
    <3>1. ASSUME Finished(hops[r][Len(hops[r])], lines[r]) PROVE FALSE
      <4>1. Last(lines[r]).type = "done"
        <5>1. Len(hops[r]) \in 1 .. Len(hops[r])
          BY <1>1, <2>2 DEF HopInv
        <5>2. hops[r][Len(hops[r])] \in Nodes
          BY <1>1, <5>1, ElementOfSeq
        <5> QED
          BY <3>1, <5>2, LineTypes DEF Finished, Last
      <4> QED
        BY <2>2, <4>1, LineTypes
    <3> QED
      BY <2>2, <3>1 DEF PartInv, PartOf
  <2> QED
    BY <1>2, <2>1, <2>2 DEF Attached
<1>3. ASSUME Waits(r) PROVE Len(Kept(r)) = 1
  <2>1. CASE Attached(r)
    BY <1>2, <2>1 DEF Kept
  <2>2. CASE ~ Attached(r)
    <3>1. Kept(r) = Front(hops[r]) /\ Len(hops[r]) > 1
      BY <1>3, <2>2 DEF Kept, Waits
    <3>2. 2 <= Len(hops[r]) /\ Len(hops[r]) - 1 = 1
      <4> DEFINE l == Len(hops[r])
      <4>1. l \in Nat /\ l <= 2 /\ l > 1
        BY <1>1, <3>1
      <4> HIDE DEF l
      <4>2. 2 <= l /\ l - 1 = 1
        BY <4>1
      <4> QED
        BY <4>2 DEF l
    <3>3. Len(Front(hops[r])) = Len(hops[r]) - 1
      BY <1>1, <3>2, FrontOfChain
    <3> QED
      BY <3>1, <3>2, <3>3
  <2> QED
    BY <2>1, <2>2
<1> QED
  BY <1>2, <1>3

\* A line that is no note does not bring one in.
LEMMA NoNoteAdded ==
    ASSUME NEW s \in Seq(Line), NEW e \in Line, e # Note, \A i \in 1 .. Len(s) : s[i] # Note
    PROVE  \A i \in 1 .. Len(Append(s, e)) : Append(s, e)[i] # Note
<1> DEFINE t == Append(s, e)
<1>1. /\ Len(s) \in Nat /\ Len(t) = Len(s) + 1 /\ t[Len(s) + 1] = e
      /\ \A i \in 1 .. Len(s) : t[i] = s[i]
  BY LineAppended
<1> HIDE DEF t
<1>2. \A i \in 1 .. Len(t) : i = Len(s) + 1 \/ i \in 1 .. Len(s)
  BY <1>1
<1>3. \A i \in 1 .. Len(t) : t[i] # Note
  BY <1>1, <1>2
<1> QED
  BY <1>3 DEF t

LEMMA PartStep == HopInv /\ WorldType /\ SpeakInv /\ PartInv /\ [Next]_vars => PartInv'
<1> SUFFICES ASSUME HopInv, WorldType, SpeakInv, PartInv, [Next]_vars PROVE PartInv'
  OBVIOUS
<1>0. /\ lines \in [Requests -> Seq(Line)]
      /\ hops \in [Requests -> Seq(Nodes)]
      /\ phase \in [Requests -> Phases]
      /\ kind \in [Requests -> {"once", "stream"}]
  BY DEF HopInv, WorldType, SpeakInv
<1>1. ASSUME UNCHANGED <<hops, phase, lines, kind>> PROVE PartInv'
  BY <1>1 DEF PartInv
\* What happens to one request leaves the others alone.
<1>2. ASSUME NEW r \in Requests, kind' = kind,
             \A q \in Requests \ {r} : /\ hops'[q] = hops[q]
                                       /\ phase'[q] = phase[q]
                                       /\ lines'[q] = lines[q],
             PartOf(lines'[r], hops'[r], phase'[r], kind[r])
      PROVE  PartInv'
  <2>1. ASSUME NEW q \in Requests PROVE PartOf(lines'[q], hops'[q], phase'[q], kind'[q])
    <3>1. CASE q = r
      BY <1>2, <3>1
    <3>2. CASE q # r
      BY <1>2, <3>2 DEF PartInv
    <3> QED
      BY <3>1, <3>2
  <2> QED
    BY <2>1 DEF PartInv
<1>3. ASSUME NEW r \in Requests, kind[r] = "once", kind' = kind,
             \A q \in Requests \ {r} : /\ hops'[q] = hops[q]
                                       /\ phase'[q] = phase[q]
                                       /\ lines'[q] = lines[q]
      PROVE  PartInv'
  <2>1. PartOf(lines'[r], hops'[r], phase'[r], kind[r])
    BY <1>3 DEF PartOf
  <2> QED
    BY <1>2, <1>3, <2>1
\* The next line, or none, of a request that the same nodes handle.
<1>4. ASSUME NEW r \in Requests, NEW s \in Seq(Line), NEW p \in Phases,
             kind' = kind, hops' = hops,
             phase' = [phase EXCEPT ![r] = p], lines' = [lines EXCEPT ![r] = s],
             PartOf(s, hops[r], p, kind[r])
      PROVE  PartInv'
  <2>1. lines'[r] = s /\ phase'[r] = p /\ hops'[r] = hops[r]
    BY <1>0, <1>4
  <2>2. \A q \in Requests \ {r} : /\ hops'[q] = hops[q]
                                  /\ phase'[q] = phase[q]
                                  /\ lines'[q] = lines[q]
    BY <1>0, <1>4
  <2> QED
    BY <1>2, <1>4, <2>1, <2>2
<1>5. ASSUME NEW r \in Requests, phase[r] \in {"new", "routing", "sending"}, kind' = kind,
             lines' = lines, phase'[r] \in {"routing", "sending", "answering"},
             \A q \in Requests \ {r} : hops'[q] = hops[q] /\ phase'[q] = phase[q]
      PROVE  PartInv'
  <2>1. lines'[r] = <<>>
    BY <1>5 DEF SpeakInv, SpeakOf
  <2>2. PartOf(lines'[r], hops'[r], phase'[r], kind[r])
    BY <1>5, <2>1, NothingSaid
  <2> QED
    BY <1>2, <1>5, <2>2
<1>6. ASSUME NEW r \in Requests, NEW n \in Nodes, Ask(r, n) PROVE PartInv'
  BY <1>0, <1>5, <1>6 DEF Ask, SetPhase
<1>7. ASSUME NEW r \in Requests, Route(r) PROVE PartInv'
  <2>1. /\ phase[r] = "routing" /\ hops' = hops /\ kind' = kind /\ lines' = lines
        /\ SetPhase(r, "sending") \/ SetPhase(r, "answering")
    BY <1>7 DEF Route
  <2> QED
    BY <1>0, <1>5, <2>1 DEF SetPhase
<1>8. ASSUME NEW r \in Requests, Accept(r) PROVE PartInv'
  BY <1>0, <1>5, <1>8 DEF Accept, SetPhase
<1>9. ASSUME NEW r \in Requests, Refuse(r) PROVE PartInv'
  <2>1. CASE kind[r] = "once"
    BY <1>0, <1>3, <1>9, <2>1 DEF Refuse, SetPhase
  <2>2. CASE kind[r] = "stream"
    <3>1. /\ kind' = kind /\ hops' = hops
          /\ phase' = [phase EXCEPT ![r] = "closing"]
          /\ lines' = [lines EXCEPT ![r] = Append(lines[r], Junk)]
      BY <1>0, <1>9, <2>2 DEF Refuse, SetPhase, Sent
    <3>2. lines[r] = <<>> /\ Len(hops[r]) = 1
      BY <1>9 DEF Refuse, SpeakInv, SpeakOf, HopInv
    <3>3. Append(lines[r], Junk) = <<Junk>> /\ <<Junk>> \in Seq(Line)
      BY <3>2, LineTypes
    <3>4. PartOf(<<Junk>>, hops[r], "closing", kind[r])
      BY <3>2 DEF PartOf
    <3> QED
      BY <1>4, <3>1, <3>3, <3>4 DEF Phases
  <2> QED
    BY <1>0, <2>1, <2>2
<1>10. ASSUME NEW r \in Requests, Waits(r), Dropped(r) PROVE PartInv'
  <2>1. /\ kind' = kind /\ lines' = lines
        /\ hops' = [hops EXCEPT ![r] = Kept(r)]
        /\ phase' = [phase EXCEPT ![r] = "failed"]
    BY <1>10 DEF Dropped, SetPhase
  <2>2. kind[r] = "stream" => Len(Kept(r)) = 1
    BY <1>10, OnlyTheFirstIsLeft
  <2>3. hops'[r] = Kept(r) /\ phase'[r] = "failed"
    BY <1>0, <2>1
  <2>4. PartOf(lines'[r], hops'[r], phase'[r], kind[r])
    BY <2>2, <2>3 DEF PartOf
  <2> QED
    BY <1>0, <1>2, <2>1, <2>4
<1>11. ASSUME NEW r \in Requests, Fallback(r) PROVE PartInv'
  <2>1. CASE kind[r] = "once"
    BY <1>0, <1>3, <1>11, <2>1 DEF Fallback, SetPhase
  <2>2. CASE kind[r] = "stream"
    <3>1. /\ kind' = kind /\ hops' = hops
          /\ phase' = [phase EXCEPT ![r] = "instead"]
          /\ lines' = [lines EXCEPT ![r] = Append(lines[r], Note)]
      BY <1>0, <1>11, <2>2 DEF Fallback, SetPhase, Sent
    <3>2. lines[r] \in Seq(Line) /\ Append(lines[r], Note) \in Seq(Line)
      BY <1>0, LineTypes, LineAppended
    <3>3. Len(hops[r]) = 1
      BY <1>11, <2>2 DEF Fallback, PartInv, PartOf
    <3>4. Talking(hops[r][Len(hops[r])], Append(lines[r], Note))
      BY <3>2, TalkingStarts
    <3>5. PartOf(Append(lines[r], Note), hops[r], "instead", kind[r])
      BY <3>3, <3>4 DEF PartOf
    <3> QED
      BY <1>4, <3>1, <3>2, <3>5 DEF Phases
  <2> QED
    BY <1>0, <2>1, <2>2
\* The node that is at work on a stream has said what the client has got.
<1>12. ASSUME NEW r \in Requests, phase[r] \in {"answering", "instead"}, kind[r] = "stream"
       PROVE  /\ Last(hops[r]) = hops[r][Len(hops[r])] /\ Last(hops[r]) \in Nodes
              /\ lines[r] \in Seq(Line) /\ Talking(Last(hops[r]), lines[r])
              /\ phase[r] = "instead" => Len(hops[r]) = 1
              /\ phase[r] = "answering" => \A i \in 1 .. Len(lines[r]) : lines[r][i] # Note
  <2>1. hops[r] \in Seq(Nodes) /\ Len(hops[r]) \in 1 .. Len(hops[r])
    BY <1>12 DEF HopInv
  <2>2. Last(hops[r]) = hops[r][Len(hops[r])] /\ Last(hops[r]) \in Nodes
    BY <2>1, ElementOfSeq DEF Last
  <2>3. PartOf(lines[r], hops[r], phase[r], kind[r])
    BY DEF PartInv
  <2> QED
    BY <1>0, <1>12, <2>2, <2>3 DEF PartOf
\* The reply of the node at work goes on, by a line that is no note.
<1>13. ASSUME NEW r \in Requests, NEW e \in Line, e # Note,
              phase[r] \in {"answering", "instead"}, kind[r] = "stream",
              Talking(Last(hops[r]), Append(lines[r], e)),
              kind' = kind, hops' = hops, phase' = phase,
              lines' = [lines EXCEPT ![r] = Append(lines[r], e)]
       PROVE  PartInv'
  <2>1. Append(lines[r], e) \in Seq(Line)
    BY <1>0, LineAppended
  <2>2. phase[r] = "answering" =>
          \A i \in 1 .. Len(Append(lines[r], e)) : Append(lines[r], e)[i] # Note
    BY <1>12, <1>13, NoNoteAdded
  <2>3. PartOf(Append(lines[r], e), hops[r], phase[r], kind[r])
    BY <1>12, <1>13, <2>2 DEF PartOf
  <2>4. phase' = [phase EXCEPT ![r] = phase[r]] /\ phase[r] \in Phases
    BY <1>0, <1>13
  <2> QED
    BY <1>4, <1>13, <2>1, <2>3, <2>4
<1>14. ASSUME NEW r \in Requests, Stream(r) PROVE PartInv'
  <2> DEFINE k == SinceNote(lines[r])
             e == Text(Last(hops[r]), k + 1)
  <2>1. /\ kind[r] = "stream" /\ k < Chunks /\ ~ Faulty(lines[r])
        /\ phase[r] \in {"answering", "instead"} /\ phase' = phase
        /\ kind' = kind /\ hops' = hops
        /\ lines' = [lines EXCEPT ![r] = Append(lines[r], e)]
    BY <1>0, <1>14 DEF Stream, AtWork, Sent
  <2>2. Talking(Last(hops[r]), Append(lines[r], e))
    BY <1>12, <2>1, TalkingOn
  <2>3. k \in Nat
    BY <1>0, SinceNoteCounts
  <2>4. k + 1 \in 0 .. Chunks
    BY <2>1, <2>3
  <2>5. e \in Line /\ e # Note
    BY <1>12, <2>1, <2>4, LineTypes, LinesDiffer
  <2> HIDE DEF e
  <2> QED
    BY <1>13, <2>1, <2>2, <2>5
<1>15. ASSUME NEW r \in Requests, ModelFails(r) PROVE PartInv'
  <2> DEFINE e == Fault(Last(hops[r]))
  <2>1. /\ kind[r] = "stream" /\ ~ Faulty(lines[r])
        /\ phase[r] \in {"answering", "instead"} /\ phase' = phase
        /\ kind' = kind /\ hops' = hops
        /\ lines' = [lines EXCEPT ![r] = Append(lines[r], e)]
    BY <1>0, <1>15 DEF ModelFails, AtWork, Sent
  <2>2. Talking(Last(hops[r]), Append(lines[r], e))
    BY <1>12, <2>1, TalkingFault
  <2>3. 0 \in 0 .. Chunks
    OBVIOUS
  <2>4. e \in Line /\ e # Note
    BY <1>12, <2>1, <2>3, LinesDiffer
  <2> HIDE DEF e
  <2> QED
    BY <1>13, <2>1, <2>2, <2>4
<1>16. ASSUME NEW r \in Requests, Finish(r) PROVE PartInv'
  <2> DEFINE d == Done(IF phase[r] = "instead" THEN Nobody ELSE Last(hops[r]))
  <2>1. /\ kind[r] = "stream"
        /\ SinceNote(lines[r]) >= Chunks \/ Faulty(lines[r])
        /\ phase[r] \in {"answering", "instead"}
        /\ phase' = [phase EXCEPT ![r] = "closing"]
        /\ kind' = kind /\ hops' = hops
        /\ lines' = [lines EXCEPT ![r] = Append(lines[r], d)]
    BY <1>0, <1>16 DEF Finish, AtWork, Sent, SetPhase
  <2>2. d \in {Done(Last(hops[r])), Done(Nobody)}
    OBVIOUS
  <2> HIDE DEF d
  <2>3. Finished(Last(hops[r]), Append(lines[r], d))
    BY <1>12, <2>1, <2>2, TalkingDone
  <2>4. d \in Line /\ d # Note /\ Append(lines[r], d) \in Seq(Line)
    BY <1>0, <1>12, <2>1, <2>2, LastLinesDiffer, LineAppended
  <2>5. Len(hops[r]) # 1 =>
          \A i \in 1 .. Len(Append(lines[r], d)) : Append(lines[r], d)[i] # Note
    BY <1>12, <2>1, <2>4, NoNoteAdded
  <2>6. PartOf(Append(lines[r], d), hops[r], "closing", kind[r])
    BY <1>12, <2>1, <2>3, <2>5 DEF PartOf
  <2> QED
    BY <1>4, <2>1, <2>4, <2>6 DEF Phases
<1>17. ASSUME NEW r \in Requests, Close(r) PROVE PartInv'
  <2>1. /\ phase[r] = "closing" /\ phase' = [phase EXCEPT ![r] = "ended"]
        /\ kind' = kind /\ hops' = hops /\ lines' = lines
    BY <1>17 DEF Close, SetPhase
  <2>2. lines' = [lines EXCEPT ![r] = lines[r]] /\ lines[r] \in Seq(Line)
    BY <1>0, <2>1
  <2>3. PartOf(lines[r], hops[r], "ended", kind[r])
    BY <2>1 DEF PartInv, PartOf
  <2> QED
    BY <1>4, <2>1, <2>2, <2>3 DEF Phases
<1>18. ASSUME NEW r \in Requests, Leave(r) PROVE PartInv'
  <2>1. /\ phase' = [phase EXCEPT ![r] = "lost"]
        /\ kind' = kind /\ hops' = hops /\ lines' = lines
    BY <1>18 DEF Leave, SetPhase
  <2>2. lines' = [lines EXCEPT ![r] = lines[r]] /\ lines[r] \in Seq(Line)
    BY <1>0, <2>1
  <2>3. PartOf(lines[r], hops[r], "lost", kind[r])
    BY DEF PartOf
  <2> QED
    BY <1>4, <2>1, <2>2, <2>3 DEF Phases
<1>19. ASSUME NEW r \in Requests, Answer(r) PROVE PartInv'
  BY <1>0, <1>3, <1>19 DEF Answer, SetPhase
<1>20. ASSUME NEW n \in Nodes, Crash(n) PROVE PartInv'
  <2>1. /\ peer' = peer /\ kind' = kind /\ lines' = lines
        /\ phase' = [r \in Requests |->
                 IF hops[r] # <<>> /\ At(n, r, 1) THEN "lost"
                 ELSE IF Behind(n, r) \/ (Attached(r) /\ peer[r] = n) THEN "failed"
                 ELSE phase[r]]
        /\ hops' = [r \in Requests |->
                 IF hops[r] # <<>> /\ ~ At(n, r, 1) /\ Behind(n, r)
                 THEN Cut(n, r) ELSE hops[r]]
    BY <1>20, CrashIs
  <2>2. ASSUME NEW r \in Requests PROVE PartOf(lines[r], hops'[r], phase'[r], kind[r])
    <3>1. CASE kind[r] = "once"
      BY <3>1 DEF PartOf
    <3>2. CASE phase'[r] = "lost"
      BY <3>2 DEF PartOf
    <3>3. CASE hops[r] = <<>>
      <4>1. phase[r] = "new" /\ Len(hops[r]) = 0
        BY <3>3 DEF HopInv
      <4>2. phase'[r] = "new"
        BY <2>1, <3>3, <4>1 DEF Behind, Attached
      <4> QED
        BY <4>2 DEF PartOf
    <3>4. CASE kind[r] = "stream" /\ phase'[r] # "lost" /\ hops[r] # <<>>
      <4>1. ~ At(n, r, 1)
        BY <2>1, <3>4
      <4>2. CASE Behind(n, r)
        <5>1. hops'[r] = Cut(n, r) /\ phase'[r] = "failed"
          BY <2>1, <3>4, <4>1, <4>2
        <5>2. Len(hops'[r]) = 1
          BY <4>2, <5>1, CutIsOne
        <5> QED
          BY <5>1, <5>2 DEF PartOf
      <4>3. CASE ~ Behind(n, r) /\ Attached(r) /\ peer[r] = n
        <5>1. hops'[r] = hops[r] /\ phase'[r] = "failed"
          BY <2>1, <3>4, <4>1, <4>3
        <5>2. Len(hops'[r]) = 1
          BY <3>4, <4>3, <5>1, OnlyTheFirstIsLeft
        <5> QED
          BY <5>1, <5>2 DEF PartOf
      <4>4. CASE ~ Behind(n, r) /\ ~ (Attached(r) /\ peer[r] = n)
        <5>1. hops'[r] = hops[r] /\ phase'[r] = phase[r]
          BY <2>1, <3>4, <4>1, <4>4
        <5> QED
          BY <5>1 DEF PartInv
      <4> QED
        BY <4>2, <4>3, <4>4
    <3> QED
      BY <1>0, <3>1, <3>2, <3>3, <3>4
  <2> QED
    BY <2>1, <2>2 DEF PartInv
<1>21. ASSUME NEW r \in Requests, Handle(r) \/ Break(r) PROVE PartInv'
  <2>1. CASE Unreachable(r) \/ TimeOut(r) \/ Break(r)
    BY <1>10, <2>1 DEF Unreachable, TimeOut, Break, Waits, Attached
  <2> QED
    BY <1>7, <1>8, <1>9, <1>11, <1>14, <1>15, <1>16, <1>17, <1>19, <1>21, <2>1 DEF Handle
<1>22. ASSUME NEW n \in Nodes, Hang(n) \/ Recover(n) PROVE PartInv'
  BY <1>1, <1>22 DEF Hang, Recover
<1>23. ASSUME NEW n \in Nodes, NEW m \in Nodes, Greet(n, m) \/ AgeOut(n, m) PROVE PartInv'
  BY <1>1, <1>23 DEF Greet, AgeOut
<1>24. ASSUME NEW n \in Nodes, NEW S \in SUBSET Models, Refresh(n, S) PROVE PartInv'
  BY <1>1, <1>24 DEF Refresh
<1>25. CASE UNCHANGED vars
  BY <1>1, <1>25 DEF vars
<1> QED
  BY <1>6, <1>18, <1>20, <1>21, <1>22, <1>23, <1>24, <1>25 DEF Next
-----------------------------------------------------------------------------
ChatInv == HopInv /\ WorldType /\ SpeakInv /\ PartInv

LEMMA ChatInvHolds == Spec => []ChatInv
<1>1. Init => ChatInv
  <2> SUFFICES ASSUME Init PROVE ChatInv
    OBVIOUS
  <2>1. HopInv /\ WorldType
    BY DEF Init, HopInv, WorldType, Phases
  <2>2. \A r \in Requests : lines[r] = <<>> /\ phase[r] = "new"
    BY DEF Init
  <2>3. lines \in [Requests -> Seq(Line)]
    BY DEF Init
  <2>4. SpeakInv
    BY <2>2, <2>3, SilentIsTruthful DEF SpeakInv
  <2>5. PartInv
    BY <2>2 DEF PartInv, PartOf
  <2> QED
    BY <2>1, <2>4, <2>5 DEF ChatInv
<1>2. ChatInv /\ [Next]_vars => ChatInv'
  BY HopStep, WorldStep, SpeakStep, PartStep DEF ChatInv
<1> QED
  BY <1>1, <1>2, PTL DEF Spec

\* Requests, registries and replies keep their types.
THEOREM TypeCorrect == Spec => []TypeOK
<1>1. ChatInv => TypeOK
  <2> SUFFICES ASSUME ChatInv PROVE TypeOK
    OBVIOUS
  <2>1. ASSUME NEW r \in Requests
        PROVE  /\ phase[r] = "sending" => peer[r] \in Nodes \ {Last(hops[r])}
               /\ phase[r] # "new" => hops[r] # <<>>
    <3>1. phase[r] = "sending" => peer[r] \in Nodes /\ peer[r] # Last(hops[r])
      BY DEF ChatInv, HopInv, SpeakInv
    <3>2. phase[r] # "new" => 1 <= Len(hops[r])
      BY DEF ChatInv, HopInv
    <3>3. Len(<<>>) = 0
      OBVIOUS
    <3> QED
      BY <3>1, <3>2, <3>3
  <2> QED
    BY <2>1 DEF ChatInv, HopInv, WorldType, SpeakInv, TypeOK
<1> QED
  BY <1>1, ChatInvHolds, PTL

\* Whom a reply names has written it, for every mesh, however many peers fail, refuse
\* or break off, and for replies of any length.
THEOREM ServedBy == Spec => []ServedByIsTrue
<1>1. ChatInv => ServedByIsTrue
  BY DEF ChatInv, SpeakInv, SpeakOf, Truthful, ServedByIsTrue
<1> QED
  BY <1>1, ChatInvHolds, PTL

\* A stream that ends is a refusal or the reply of one node, whole or with the error
\* that cut it short, whatever a peer had said before it failed, and with a note it
\* is the reply of the node that was asked: ReplyIsWhole, for every mesh and replies
\* of any length.
THEOREM WholeReplies == Spec => []ReplyIsWhole
<1>1. ChatInv => ReplyIsWhole
  <2> SUFFICES ASSUME ChatInv, NEW r \in Requests, phase[r] = "ended", kind[r] = "stream"
               PROVE  \/ Last(lines[r]) = Junk
                      \/ \E n \in Nodes : /\ WholeReply(n, LastPart(lines[r]))
                                          /\ Note \in Range(lines[r]) => n = Head(hops[r])
    BY DEF ReplyIsWhole
  <2> DEFINE n == hops[r][Len(hops[r])]
  <2>1. /\ hops[r] \in Seq(Nodes) /\ lines[r] \in Seq(Line)
        /\ Len(hops[r]) \in 1 .. Len(hops[r])
    BY DEF ChatInv, HopInv, SpeakInv
  <2>2. n \in Nodes /\ (Len(hops[r]) = 1 => n = Head(hops[r]))
    BY <2>1, ElementOfSeq
  <2> HIDE DEF n
  <2>3. \/ lines[r] = <<Junk>>
        \/ /\ Finished(n, lines[r])
           /\ Len(hops[r]) # 1 => \A i \in 1 .. Len(lines[r]) : lines[r][i] # Note
    BY DEF ChatInv, PartInv, PartOf, n
  <2>4. CASE lines[r] = <<Junk>>
    BY <2>4 DEF Last
  <2>5. CASE /\ Finished(n, lines[r])
             /\ Len(hops[r]) # 1 => \A i \in 1 .. Len(lines[r]) : lines[r][i] # Note
    <3>1. WholeReply(n, LastPart(lines[r]))
      BY <2>1, <2>2, <2>5, FinishedIsWhole
    <3>2. Note \in Range(lines[r]) => \E i \in 1 .. Len(lines[r]) : lines[r][i] = Note
      BY <2>1, LenProperties DEF Range
    <3>3. Note \in Range(lines[r]) => n = Head(hops[r])
      BY <2>2, <2>5, <3>2
    <3> QED
      BY <2>2, <3>1, <3>3
  <2> QED
    BY <2>3, <2>4, <2>5
<1> QED
  BY <1>1, ChatInvHolds, PTL
=============================================================================
