--------------------------- MODULE Screens_proofs ---------------------------
(***************************************************************************)
(* Theorems about what a screen depends on: the event bus, for any number  *)
(* of screens and any size of their queues, and the voice control of the   *)
(* page, for any number of taps.  The two share no state, so each has a    *)
(* specification and theorems of its own.                                  *)
(***************************************************************************)
EXTENDS EventBus, Voice, SequenceTheorems, TLAPS

USE BusAssumption DEF BusAssumption

\* Everything that passed, with one more event at the end of the queue.
LEMMA PassedLonger ==
    ASSUME NEW s \in Seq(Nat), NEW h \in Seq(Nat), NEW q \in Seq(Nat), NEW e \in Nat
    PROVE  s \o h \o Append(q, e) = Append(s \o h \o q, e)
<1>1. s \o h \in Seq(Nat) /\ s \o h \o q \in Seq(Nat) /\ <<e>> \in Seq(Nat)
  BY ConcatProperties
<1>2. Append(q, e) = q \o <<e>> /\ Append(s \o h \o q, e) = s \o h \o q \o <<e>>
  BY <1>1, AppendIsConcat
<1> QED
  BY <1>1, <1>2, ConcatAssociative

\* ... with the oldest event of the queue in hand, ...
LEMMA PassedInHand ==
    ASSUME NEW s \in Seq(Nat), NEW q \in Seq(Nat), q # <<>>
    PROVE  s \o <<Head(q)>> \o Tail(q) = s \o <<>> \o q
<1>1. Head(q) \in Nat /\ Tail(q) \in Seq(Nat) /\ <<Head(q)>> \in Seq(Nat)
  BY HeadTailProperties
<1>2. <<Head(q)>> \o Tail(q) = q
  BY <1>1
<1>3. s \o <<Head(q)>> \o Tail(q) = s \o (<<Head(q)>> \o Tail(q))
  BY <1>1, ConcatAssociative, SMTT(60)
<1>4. s \o <<>> = s
  BY ConcatEmptySeq
<1> QED
  BY <1>2, <1>3, <1>4

\* ... and with the event in hand sent.
LEMMA PassedSent ==
    ASSUME NEW s \in Seq(Nat), NEW q \in Seq(Nat), NEW e \in Nat
    PROVE  Append(s, e) \o <<>> \o q = s \o <<e>> \o q
<1>1. Append(s, e) = s \o <<e>> /\ Append(s, e) \in Seq(Nat)
  BY AppendIsConcat, AppendProperties
<1>2. Append(s, e) \o <<>> = Append(s, e)
  BY <1>1, ConcatEmptySeq
<1> QED
  BY <1>1, <1>2

\* What is appended becomes the last element.
LEMMA ElementsAppend ==
    ASSUME NEW s \in Seq(Nat), NEW e \in Nat
    PROVE  Elements(Append(s, e)) = Elements(s) \cup {e}
<1>1. /\ Append(s, e) \in Seq(Nat)
      /\ Len(Append(s, e)) = Len(s) + 1
      /\ \A i \in 1 .. Len(s) : Append(s, e)[i] = s[i]
      /\ Append(s, e)[Len(s) + 1] = e
  BY AppendProperties
<1>2. DOMAIN s = 1 .. Len(s) /\ Len(s) \in Nat
  BY LenProperties
<1>3. DOMAIN Append(s, e) = 1 .. Len(s) + 1
  BY <1>1, LenProperties
<1> QED
  BY <1>1, <1>2, <1>3 DEF Elements

\* An event that is newer than all others may be appended.
LEMMA RisingAppend ==
    ASSUME NEW s \in Seq(Nat), NEW low \in Nat, NEW high \in Nat, low <= high,
           Rising(s, low, high)
    PROVE  Rising(Append(s, high + 1), low, high + 1)
<1>1. /\ Append(s, high + 1) \in Seq(Nat)
      /\ Len(Append(s, high + 1)) = Len(s) + 1
      /\ \A i \in 1 .. Len(s) : Append(s, high + 1)[i] = s[i]
      /\ Append(s, high + 1)[Len(s) + 1] = high + 1
  BY AppendProperties
<1>2. DOMAIN s = 1 .. Len(s) /\ Len(s) \in Nat
  BY LenProperties
<1>3. DOMAIN Append(s, high + 1) = 1 .. Len(s) + 1
  BY <1>1, LenProperties
<1>4. \A i \in 1 .. Len(s) : s[i] \in Nat
  BY <1>2
<1> QED
  BY <1>1, <1>2, <1>3, <1>4 DEF Rising

\* Events in order are in order when the latest have not come yet.
LEMMA RisingPrefix ==
    ASSUME NEW s \in Seq(Nat), NEW t \in Seq(Nat), NEW low \in Nat, NEW high \in Nat,
           Rising(s \o t, low, high)
    PROVE  Rising(s, low, high)
<1>1. /\ s \o t \in Seq(Nat)
      /\ Len(s \o t) = Len(s) + Len(t)
      /\ \A i \in 1 .. Len(s) : (s \o t)[i] = s[i]
  BY ConcatProperties
<1>2. Len(s) \in Nat /\ Len(t) \in Nat /\ DOMAIN s = 1 .. Len(s)
      /\ DOMAIN (s \o t) = 1 .. Len(s) + Len(t)
  BY <1>1, LenProperties
<1>3. \A i \in DOMAIN s : i \in DOMAIN (s \o t)
  BY <1>2
<1> QED
  BY <1>1, <1>2, <1>3 DEF Rising

\* What passed is a sequence of events.
LEMMA PassedType ==
    ASSUME TypeOK, FreshInv, NEW c \in Connections
    PROVE  /\ Held(c) \in Seq(Nat)
           /\ sent[c] \in Seq(Nat) /\ queue[c] \in Seq(Nat)
           /\ Held(c) \o queue[c] \in Seq(Nat)
           /\ Passed(c) = sent[c] \o (Held(c) \o queue[c])
           /\ Passed(c) \in Seq(Nat)
<1>1. Held(c) \in Seq(Nat) /\ sent[c] \in Seq(Nat) /\ queue[c] \in Seq(Nat)
  BY DEF TypeOK, FreshInv, Held
<1>2. ASSUME NEW s \in Seq(Nat), NEW h \in Seq(Nat), NEW q \in Seq(Nat)
      PROVE  /\ h \o q \in Seq(Nat)
             /\ s \o h \o q = s \o (h \o q)
             /\ s \o h \o q \in Seq(Nat)
  BY ConcatProperties, ConcatAssociative, SMTT(60)
<1> QED
  BY <1>1, <1>2, ZenonT(60) DEF Passed

LEMMA TypeStep == TypeOK /\ FreshInv /\ [Next]_vars => TypeOK' /\ FreshInv'
<1> SUFFICES ASSUME TypeOK, FreshInv, [Next]_vars PROVE TypeOK' /\ FreshInv'
  OBVIOUS
<1>1. CASE Publish
  <2>1. published' \in Nat /\ published' = published + 1
    BY <1>1 DEF Publish, TypeOK
  <2>2. ASSUME NEW c \in Connections
        PROVE  /\ Append(queue[c], published + 1) \in Seq(Nat)
               /\ Append(dropped[c], published + 1) \in Seq(Nat)
    BY <2>1, AppendProperties DEF TypeOK
  <2>3. queue' \in [Connections -> Seq(Nat)] /\ dropped' \in [Connections -> Seq(Nat)]
    BY <1>1, <2>2 DEF Publish, TypeOK
  <2>4. TypeOK'
    BY <1>1, <2>1, <2>3 DEF Publish, TypeOK
  <2>5. \A c \in Connections : handler[c] = "off" =>
            queue'[c] = queue[c] /\ dropped'[c] = dropped[c]
    BY <1>1 DEF Publish, Subscribed
  <2>6. \A c \in Connections : joined[c] \in Nat /\ joined[c] <= published + 1
    BY <2>1 DEF TypeOK, FreshInv
  <2> QED
    BY <1>1, <2>1, <2>4, <2>5, <2>6 DEF Publish, FreshInv
<1>2. ASSUME NEW c \in Connections, Connect(c) PROVE TypeOK' /\ FreshInv'
  <2>1. TypeOK'
    BY <1>2 DEF Connect, TypeOK, HandlerStates
  <2> QED
    BY <1>2, <2>1 DEF Connect, TypeOK, FreshInv
<1>3. ASSUME NEW c \in Connections, Get(c) PROVE TypeOK' /\ FreshInv'
  <2>1. Head(queue[c]) \in Nat /\ Tail(queue[c]) \in Seq(Nat)
    BY <1>3, HeadTailProperties DEF Get, TypeOK
  <2>2. TypeOK'
    BY <1>3, <2>1 DEF Get, TypeOK, HandlerStates
  <2> QED
    BY <1>3, <2>1, <2>2 DEF Get, TypeOK, FreshInv
<1>4. ASSUME NEW c \in Connections, SendDone(c) PROVE TypeOK' /\ FreshInv'
  <2>1. handler[c] = "sending" => Append(sent[c], holding[c]) \in Seq(Nat)
    BY AppendProperties DEF TypeOK, FreshInv
  <2>2. sent' \in [Connections -> Seq(Nat)]
    BY <1>4, <2>1 DEF SendDone, TypeOK
  <2>3. TypeOK'
    BY <1>4, <2>2 DEF SendDone, TypeOK, HandlerStates
  <2> QED
    BY <1>4, <2>3 DEF SendDone, TypeOK, FreshInv
<1>5. ASSUME NEW c \in Connections, SendFails(c) PROVE TypeOK' /\ FreshInv'
  <2>1. TypeOK'
    BY <1>5 DEF SendFails, TypeOK, HandlerStates
  <2> QED
    BY <1>5, <2>1 DEF SendFails, TypeOK, FreshInv
<1>6. ASSUME NEW c \in Connections, Leave(c) PROVE TypeOK' /\ FreshInv'
  BY <1>6 DEF Leave, TypeOK, FreshInv
<1>7. CASE UNCHANGED vars
  BY <1>7 DEF vars, TypeOK, FreshInv
<1> QED
  BY <1>1, <1>2, <1>3, <1>4, <1>5, <1>6, <1>7 DEF Next, Handler

\* Between two publications everything that passed stays what it is: only
\* connecting starts a new account, and only a send that fails ends one.
LEMMA PassedKept ==
    ASSUME TypeOK, FreshInv, NEW c \in Connections, NEW d \in Connections,
           Get(c) \/ SendDone(c) \/ Leave(c)
    PROVE  /\ Passed(d)' = Passed(d)
           /\ Subscribed(d)' = Subscribed(d)
           /\ published' = published /\ joined' = joined /\ dropped' = dropped
<1>1. published' = published /\ joined' = joined /\ dropped' = dropped
  BY DEF Get, SendDone, Leave
<1>2. Subscribed(d)' = Subscribed(d)
  BY DEF Get, SendDone, Leave, Subscribed, TypeOK
<1>3. CASE d # c
  <2>1. /\ handler'[d] = handler[d] /\ holding'[d] = holding[d]
        /\ queue'[d] = queue[d] /\ sent'[d] = sent[d]
    BY <1>3 DEF Get, SendDone, Leave, TypeOK
  <2>2. Held(d)' = Held(d)
    BY <2>1 DEF Held
  <2> QED
    BY <1>1, <1>2, <2>1, <2>2 DEF Passed
<1>4. CASE d = c /\ Get(c)
  <2>1. /\ Held(c) = <<>> /\ queue[c] # <<>>
        /\ sent'[c] = sent[c]
        /\ queue'[c] = Tail(queue[c])
        /\ handler'[c] = "sending" /\ holding'[c] = Head(queue[c])
    BY <1>4 DEF Get, Held, TypeOK
  <2>2. Passed(c)' = sent[c] \o <<Head(queue[c])>> \o Tail(queue[c])
    BY <2>1 DEF Passed, Held
  <2>3. Passed(c) = sent[c] \o <<>> \o queue[c]
    BY <2>1 DEF Passed
  <2>4. sent[c] \in Seq(Nat) /\ queue[c] \in Seq(Nat)
    BY DEF TypeOK
  <2>5. sent[c] \o <<Head(queue[c])>> \o Tail(queue[c]) = sent[c] \o <<>> \o queue[c]
    BY <2>1, <2>4, PassedInHand, Zenon
  <2> QED
    BY <1>1, <1>2, <1>4, <2>2, <2>3, <2>5
<1>5. CASE d = c /\ SendDone(c) /\ handler[c] = "sending"
  <2>1. /\ holding[c] \in Nat /\ Held(c) = <<holding[c]>>
        /\ sent'[c] = Append(sent[c], holding[c])
        /\ queue' = queue
        /\ handler'[c] = "waiting"
    BY <1>5 DEF SendDone, Held, TypeOK, FreshInv
  <2>2. Passed(c)' = Append(sent[c], holding[c]) \o <<>> \o queue[c]
    BY <2>1 DEF Passed, Held
  <2>3. Passed(c) = sent[c] \o <<holding[c]>> \o queue[c]
    BY <2>1 DEF Passed
  <2>4. sent[c] \in Seq(Nat) /\ queue[c] \in Seq(Nat)
    BY DEF TypeOK
  <2>5. Append(sent[c], holding[c]) \o <<>> \o queue[c] = sent[c] \o <<holding[c]>> \o queue[c]
    BY <2>1, <2>4, PassedSent, Zenon
  <2> QED
    BY <1>1, <1>2, <1>5, <2>2, <2>3, <2>5
<1>6. CASE d = c /\ SendDone(c) /\ handler[c] = "hello"
  BY <1>1, <1>2, <1>6 DEF SendDone, Passed, Held, TypeOK
<1>7. CASE d = c /\ Leave(c)
  BY <1>1, <1>2, <1>7 DEF Leave, Passed, Held
<1> QED
  BY <1>1, <1>2, <1>3, <1>4, <1>5, <1>6, <1>7 DEF SendDone

\* What publishing does to one connection.
LEMMA PassedPublished ==
    ASSUME TypeOK, FreshInv, Publish, NEW c \in Connections
    PROVE  /\ ~ (Subscribed(c) /\ HasRoom(c)) => Passed(c)' = Passed(c)
           /\ Subscribed(c) /\ HasRoom(c) =>
                 /\ Passed(c)' = Append(Passed(c), published + 1)
                 /\ dropped'[c] = dropped[c]
           /\ Subscribed(c) /\ ~ HasRoom(c) =>
                 dropped'[c] = Append(dropped[c], published + 1)
           /\ Subscribed(c)' = Subscribed(c)
           /\ joined' = joined /\ published' = published + 1
<1>1. /\ sent'[c] = sent[c] /\ Held(c)' = Held(c)
      /\ queue'[c] = IF Subscribed(c) /\ HasRoom(c)
                     THEN Append(queue[c], published + 1) ELSE queue[c]
      /\ dropped'[c] = IF Subscribed(c) /\ ~ HasRoom(c)
                       THEN Append(dropped[c], published + 1) ELSE dropped[c]
  BY DEF Publish, Held
<1>2. joined' = joined /\ published' = published + 1 /\ Subscribed(c)' = Subscribed(c)
  BY DEF Publish, Subscribed
<1>3. sent[c] \o Held(c) \o Append(queue[c], published + 1)
        = Append(Passed(c), published + 1)
  <2>1. published + 1 \in Nat
    BY DEF TypeOK
  <2>2. sent[c] \in Seq(Nat) /\ Held(c) \in Seq(Nat) /\ queue[c] \in Seq(Nat)
    BY PassedType
  <2>3. sent[c] \o Held(c) \o Append(queue[c], published + 1)
          = Append(sent[c] \o Held(c) \o queue[c], published + 1)
    <3> DEFINE e == published + 1
               s == sent[c]
               h == Held(c)
               q == queue[c]
    <3>1. e \in Nat /\ s \in Seq(Nat) /\ h \in Seq(Nat) /\ q \in Seq(Nat)
      BY <2>1, <2>2
    <3> HIDE DEF e, s, h, q
    <3>2. s \o h \o Append(q, e) = Append(s \o h \o q, e)
      BY ONLY <3>1, PassedLonger
    <3> QED
      BY ONLY <3>2 DEF e, s, h, q
  <2> QED
    BY <2>3 DEF Passed
<1>4. Passed(c)' = sent'[c] \o Held(c)' \o queue'[c]
  BY DEF Passed
<1>5. Passed(c) = sent[c] \o Held(c) \o queue[c]
  BY DEF Passed
<1> QED
  BY <1>1, <1>2, <1>3, <1>4, <1>5

LEMMA OrderStep ==
    TypeOK /\ FreshInv /\ OrderInv /\ [Next]_vars => OrderInv'
<1> SUFFICES ASSUME TypeOK, FreshInv, OrderInv, [Next]_vars, NEW d \in Connections
             PROVE  Rising(Passed(d)', joined'[d], published')
  BY DEF OrderInv
<1>0. /\ published \in Nat /\ joined[d] \in Nat /\ joined[d] <= published
      /\ Rising(Passed(d), joined[d], published)
      /\ Passed(d) \in Seq(Nat)
      /\ \A i \in DOMAIN Passed(d) : Passed(d)[i] \in Nat
  BY PassedType DEF TypeOK, FreshInv, OrderInv
<1>1. CASE Publish
  <2>1. CASE Subscribed(d) /\ HasRoom(d)
    <3>1. /\ Passed(d)' = Append(Passed(d), published + 1)
          /\ joined' = joined /\ published' = published + 1
      BY <1>1, <2>1, PassedPublished
    <3>2. Rising(Append(Passed(d), published + 1), joined[d], published + 1)
      BY <1>0, RisingAppend
    <3> QED
      BY <3>1, <3>2
  <2>2. CASE ~ (Subscribed(d) /\ HasRoom(d))
    <3>1. /\ Passed(d)' = Passed(d)
          /\ joined' = joined /\ published' = published + 1
      BY <1>1, <2>2, PassedPublished
    <3>2. Rising(Passed(d), joined[d], published + 1)
      BY <1>0 DEF Rising
    <3> QED
      BY <3>1, <3>2
  <2> QED
    BY <2>1, <2>2
<1>2. ASSUME NEW c \in Connections, Connect(c)
      PROVE  Rising(Passed(d)', joined'[d], published')
  <2>1. CASE d = c
    <3>1. sent'[c] = <<>> /\ Held(c)' = <<>> /\ queue'[c] = <<>>
      BY <1>2 DEF Connect, Held, TypeOK, FreshInv
    <3>2. Passed(c)' = <<>>
      BY <3>1 DEF Passed
    <3> QED
      BY <2>1, <3>2 DEF Rising
  <2>2. CASE d # c
    <3>1. /\ handler'[d] = handler[d] /\ holding'[d] = holding[d]
          /\ queue'[d] = queue[d] /\ sent'[d] = sent[d]
          /\ joined'[d] = joined[d] /\ published' = published
      BY <1>2, <2>2 DEF Connect, TypeOK
    <3>2. Passed(d)' = Passed(d)
      BY <3>1 DEF Passed, Held
    <3> QED
      BY <1>0, <3>1, <3>2
  <2> QED
    BY <2>1, <2>2
<1>3. ASSUME NEW c \in Connections, Get(c) \/ SendDone(c) \/ Leave(c)
      PROVE  Rising(Passed(d)', joined'[d], published')
  BY <1>0, <1>3, PassedKept
<1>4. ASSUME NEW c \in Connections, SendFails(c)
      PROVE  Rising(Passed(d)', joined'[d], published')
  <2>1. CASE d = c
    <3>1. /\ sent'[c] = sent[c] /\ Held(c)' = <<>> /\ queue'[c] = <<>>
          /\ joined' = joined /\ published' = published
      BY <1>4 DEF SendFails, Held, TypeOK
    <3>2. sent[c] \in Seq(Nat) /\ Held(c) \o queue[c] \in Seq(Nat)
      BY PassedType
    <3>3. Passed(c)' = sent[c]
      BY <3>1, <3>2 DEF Passed
    <3>4. Passed(c) = sent[c] \o (Held(c) \o queue[c])
      BY PassedType
    <3>5. Rising(sent[c] \o (Held(c) \o queue[c]), joined[c], published)
      BY <1>0, <2>1, <3>4
    <3>6. Rising(sent[c], joined[c], published)
      BY <1>0, <2>1, <3>2, <3>5, RisingPrefix
    <3> QED
      BY <2>1, <3>1, <3>3, <3>6
  <2>2. CASE d # c
    <3>1. /\ handler'[d] = handler[d] /\ holding'[d] = holding[d]
          /\ queue'[d] = queue[d] /\ sent'[d] = sent[d]
          /\ joined'[d] = joined[d] /\ published' = published
      BY <1>4, <2>2 DEF SendFails, TypeOK
    <3>2. Passed(d)' = Passed(d)
      BY <3>1 DEF Passed, Held
    <3> QED
      BY <1>0, <3>1, <3>2
  <2> QED
    BY <2>1, <2>2
<1>5. CASE UNCHANGED vars
  BY <1>0, <1>5 DEF vars, Passed, Held
<1> QED
  BY <1>1, <1>2, <1>3, <1>4, <1>5 DEF Next, Handler

\* What is sent, in hand, queued or dropped is all of what was published.
LEMMA AccountStep ==
    TypeOK /\ FreshInv /\ OrderInv /\ NothingLostOtherwise /\ [Next]_vars
        => NothingLostOtherwise'
<1> SUFFICES ASSUME TypeOK, FreshInv, OrderInv, NothingLostOtherwise, [Next]_vars,
                    NEW d \in Connections, Subscribed(d)'
             PROVE  /\ Elements(Passed(d)') \cup Elements(dropped'[d])
                         = joined'[d] + 1 .. published'
                    /\ Elements(Passed(d)') \cap Elements(dropped'[d]) = {}
  BY DEF NothingLostOtherwise, Elements
<1> DEFINE Account(p, x, low, high) ==
             Elements(p) \cup Elements(x) = low + 1 .. high /\ Elements(p) \cap Elements(x) = {}
<1>0. /\ published \in Nat /\ joined[d] \in Nat /\ joined[d] <= published
      /\ Passed(d) \in Seq(Nat) /\ dropped[d] \in Seq(Nat)
      /\ Subscribed(d) => Account(Passed(d), dropped[d], joined[d], published)
  BY PassedType DEF TypeOK, FreshInv, NothingLostOtherwise
<1>1. CASE Publish
  <2>1. /\ Subscribed(d) /\ published + 1 \in Nat
        /\ joined' = joined /\ published' = published + 1
    BY <1>0, <1>1, PassedPublished
  <2>2. (joined[d] + 1 .. published) \cup {published + 1} = joined[d] + 1 .. published + 1
    BY <1>0
  <2>3. published + 1 \notin joined[d] + 1 .. published
    BY <1>0
  <2>4. CASE HasRoom(d)
    <3>1. Passed(d)' = Append(Passed(d), published + 1) /\ dropped'[d] = dropped[d]
      BY <1>1, <2>1, <2>4, PassedPublished
    <3>2. Elements(Append(Passed(d), published + 1)) = Elements(Passed(d)) \cup {published + 1}
      BY <1>0, <2>1, ElementsAppend
    <3> QED
      BY <1>0, <2>1, <2>2, <2>3, <3>1, <3>2
  <2>5. CASE ~ HasRoom(d)
    <3>1. Passed(d)' = Passed(d) /\ dropped'[d] = Append(dropped[d], published + 1)
      BY <1>1, <2>1, <2>5, PassedPublished
    <3>2. Elements(Append(dropped[d], published + 1)) = Elements(dropped[d]) \cup {published + 1}
      BY <1>0, <2>1, ElementsAppend
    <3> QED
      BY <1>0, <2>1, <2>2, <2>3, <3>1, <3>2
  <2> QED
    BY <2>4, <2>5
<1>2. ASSUME NEW c \in Connections, Connect(c)
      PROVE  Account(Passed(d)', dropped'[d], joined'[d], published')
  <2>1. CASE d = c
    <3>1. /\ sent'[c] = <<>> /\ Held(c)' = <<>> /\ queue'[c] = <<>> /\ dropped'[c] = <<>>
          /\ joined'[c] = published /\ published' = published
      BY <1>2 DEF Connect, Held, TypeOK, FreshInv
    <3>2. Passed(c)' = <<>>
      BY <3>1 DEF Passed
    <3>3. Elements(<<>>) = {} /\ published + 1 .. published = {}
      BY <1>0 DEF Elements
    <3> QED
      BY <2>1, <3>1, <3>2, <3>3
  <2>2. CASE d # c
    <3>1. /\ handler'[d] = handler[d] /\ holding'[d] = holding[d]
          /\ queue'[d] = queue[d] /\ sent'[d] = sent[d] /\ dropped'[d] = dropped[d]
          /\ joined'[d] = joined[d] /\ published' = published
      BY <1>2, <2>2 DEF Connect, TypeOK
    <3>2. Passed(d)' = Passed(d) /\ Subscribed(d)
      BY <3>1 DEF Passed, Held, Subscribed
    <3> QED
      BY <1>0, <3>1, <3>2
  <2> QED
    BY <2>1, <2>2
<1>3. ASSUME NEW c \in Connections, Get(c) \/ SendDone(c) \/ Leave(c)
      PROVE  Account(Passed(d)', dropped'[d], joined'[d], published')
  BY <1>0, <1>3, PassedKept
<1>4. ASSUME NEW c \in Connections, SendFails(c)
      PROVE  Account(Passed(d)', dropped'[d], joined'[d], published')
  <2>1. d # c
    BY <1>4 DEF SendFails, Subscribed, TypeOK
  <2>2. /\ handler'[d] = handler[d] /\ holding'[d] = holding[d]
        /\ queue'[d] = queue[d] /\ sent'[d] = sent[d] /\ dropped'[d] = dropped[d]
        /\ joined'[d] = joined[d] /\ published' = published
    BY <1>4, <2>1 DEF SendFails, TypeOK
  <2>3. Passed(d)' = Passed(d) /\ Subscribed(d)
    BY <2>2 DEF Passed, Held, Subscribed
  <2> QED
    BY <1>0, <2>2, <2>3
<1>5. CASE UNCHANGED vars
  BY <1>0, <1>5 DEF vars, Passed, Held, Subscribed
<1> QED
  BY <1>1, <1>2, <1>3, <1>4, <1>5 DEF Next, Handler

\* A screen was a whole queue behind when x was published: QueueCap events in a row
\* of what passes are older.
Behind(p, x) ==
    \E k \in 0 .. Len(p) - QueueCap : \A j \in k + 1 .. k + QueueCap : p[j] < x

\* That remains so as more passes, ...
LEMMA BehindLonger ==
    ASSUME NEW p \in Seq(Nat), NEW e \in Nat, NEW x \in Nat, Behind(p, x)
    PROVE  Behind(Append(p, e), x)
<1>1. PICK k \in 0 .. Len(p) - QueueCap : \A j \in k + 1 .. k + QueueCap : p[j] < x
  BY DEF Behind
<1>2. /\ Len(p) \in Nat /\ Len(Append(p, e)) = Len(p) + 1
      /\ \A i \in 1 .. Len(p) : Append(p, e)[i] = p[i]
  BY AppendProperties, LenProperties
<1>3. k \in 0 .. Len(Append(p, e)) - QueueCap
  BY <1>2
<1>4. \A j \in k + 1 .. k + QueueCap : j \in 1 .. Len(p)
  BY <1>2
<1>5. \A j \in k + 1 .. k + QueueCap : Append(p, e)[j] < x
  BY <1>1, <1>2, <1>4
<1> QED
  BY <1>3, <1>5 DEF Behind

\* ... and it is so for a new event when the queue at the end of p is full.
LEMMA BehindWhenFull ==
    ASSUME NEW s \in Seq(Nat), NEW q \in Seq(Nat), Len(q) >= QueueCap,
           NEW low \in Nat, NEW high \in Nat, Rising(s \o q, low, high)
    PROVE  Behind(s \o q, high + 1)
<1> DEFINE p == s \o q
<1>1. p \in Seq(Nat) /\ Len(p) = Len(s) + Len(q) /\ Len(s) \in Nat /\ Len(q) \in Nat
  BY ConcatProperties, LenProperties
<1>2. DOMAIN p = 1 .. Len(p) /\ \A i \in 1 .. Len(p) : p[i] \in Nat
  BY <1>1, LenProperties, ElementOfSeq
<1>3. \A i \in 1 .. Len(p) : p[i] <= high
  BY <1>2 DEF Rising
<1> HIDE DEF p
<1>4. \A i \in 1 .. Len(p) : p[i] < high + 1
  BY <1>2, <1>3
<1> DEFINE k == Len(p) - QueueCap
<1>5. k \in 0 .. Len(p) - QueueCap
  BY <1>1
<1>6. \A j \in k + 1 .. k + QueueCap : j \in 1 .. Len(p)
  BY <1>1
<1>7. \A j \in k + 1 .. k + QueueCap : p[j] < high + 1
  BY <1>4, <1>6
<1>8. Behind(p, high + 1)
  BY <1>5, <1>7 DEF Behind
<1> QED
  BY <1>8 DEF p

\* An event is dropped for a screen only when a whole queue of older ones is to pass.
LEMMA BehindStep ==
    TypeOK /\ FreshInv /\ OrderInv /\ DroppedOnlyWhenBehind /\ [Next]_vars
        => DroppedOnlyWhenBehind'
<1> SUFFICES ASSUME TypeOK, FreshInv, OrderInv, DroppedOnlyWhenBehind, [Next]_vars,
                    NEW d \in Connections, NEW i \in DOMAIN dropped'[d], Subscribed(d)'
             PROVE  Behind(Passed(d)', dropped'[d][i])
  BY DEF DroppedOnlyWhenBehind, Behind
<1>0. /\ published \in Nat /\ joined[d] \in Nat
      /\ Rising(Passed(d), joined[d], published)
      /\ Passed(d) \in Seq(Nat) /\ dropped[d] \in Seq(Nat)
  BY PassedType DEF TypeOK, OrderInv
<1>1. ASSUME Subscribed(d), i \in DOMAIN dropped[d], dropped'[d][i] = dropped[d][i]
      PROVE  dropped'[d][i] \in Nat /\ Behind(Passed(d), dropped'[d][i])
  <2>1. dropped[d][i] \in Nat
    BY <1>0, <1>1, LenProperties, ElementOfSeq
  <2>2. Behind(Passed(d), dropped[d][i])
    BY <1>1 DEF DroppedOnlyWhenBehind, Behind
  <2> QED
    BY <1>1, <2>1, <2>2
<1>2. CASE Publish
  <2>1. Subscribed(d) /\ published + 1 \in Nat
    BY <1>0, <1>2, PassedPublished
  <2>2. CASE HasRoom(d)
    <3>1. Passed(d)' = Append(Passed(d), published + 1) /\ dropped'[d] = dropped[d]
      BY <1>2, <2>1, <2>2, PassedPublished
    <3> QED
      BY <1>0, <1>1, <2>1, <3>1, BehindLonger
  <2>3. CASE ~ HasRoom(d)
    <3>1. Passed(d)' = Passed(d) /\ dropped'[d] = Append(dropped[d], published + 1)
      BY <1>2, <2>1, <2>3, PassedPublished
    <3>2. CASE i \in DOMAIN dropped[d]
      <4>1. dropped'[d][i] = dropped[d][i]
        BY <1>0, <2>1, <3>1, <3>2, AppendProperties
      <4> QED
        BY <1>1, <2>1, <3>1, <3>2, <4>1
    <3>3. CASE i \notin DOMAIN dropped[d]
      <4>1. dropped'[d][i] = published + 1
        BY <1>0, <2>1, <3>1, <3>3, AppendProperties
      <4>2. /\ sent[d] \in Seq(Nat) /\ Held(d) \in Seq(Nat) /\ queue[d] \in Seq(Nat)
            /\ Passed(d) = (sent[d] \o Held(d)) \o queue[d]
            /\ sent[d] \o Held(d) \in Seq(Nat)
        BY PassedType, ConcatProperties DEF Passed
      <4>3. Len(queue[d]) >= QueueCap
        BY <2>3, <4>2, LenProperties DEF HasRoom
      <4>4. Behind((sent[d] \o Held(d)) \o queue[d], published + 1)
        BY <1>0, <4>2, <4>3, BehindWhenFull
      <4> QED
        BY <3>1, <4>1, <4>2, <4>4
    <3> QED
      BY <3>2, <3>3
  <2> QED
    BY <2>2, <2>3
<1>3. ASSUME NEW c \in Connections, Connect(c) PROVE Behind(Passed(d)', dropped'[d][i])
  <2>1. d # c
    <3>1. d = c => dropped'[d] = <<>>
      BY <1>3 DEF Connect, FreshInv
    <3> QED
      BY <3>1
  <2>2. /\ handler'[d] = handler[d] /\ holding'[d] = holding[d]
        /\ queue'[d] = queue[d] /\ sent'[d] = sent[d] /\ dropped'[d] = dropped[d]
    BY <1>3, <2>1 DEF Connect, TypeOK
  <2>3. Passed(d)' = Passed(d) /\ Subscribed(d)
    BY <2>2 DEF Passed, Held, Subscribed
  <2> QED
    BY <1>1, <2>2, <2>3
<1>4. ASSUME NEW c \in Connections, Get(c) \/ SendDone(c) \/ Leave(c)
      PROVE  Behind(Passed(d)', dropped'[d][i])
  BY <1>1, <1>4, PassedKept
<1>5. ASSUME NEW c \in Connections, SendFails(c) PROVE Behind(Passed(d)', dropped'[d][i])
  <2>1. d # c
    BY <1>5 DEF SendFails, Subscribed, TypeOK
  <2>2. /\ handler'[d] = handler[d] /\ holding'[d] = holding[d]
        /\ queue'[d] = queue[d] /\ sent'[d] = sent[d] /\ dropped'[d] = dropped[d]
    BY <1>5, <2>1 DEF SendFails, TypeOK
  <2>3. Passed(d)' = Passed(d) /\ Subscribed(d)
    BY <2>2 DEF Passed, Held, Subscribed
  <2> QED
    BY <1>1, <2>2, <2>3
<1>6. CASE UNCHANGED vars
  BY <1>1, <1>6 DEF vars, Passed, Held, Subscribed
<1> QED
  BY <1>2, <1>3, <1>4, <1>5, <1>6 DEF Next, Handler

BusInv == TypeOK /\ FreshInv /\ OrderInv /\ NothingLostOtherwise /\ DroppedOnlyWhenBehind

LEMMA BusInvHolds == Spec => []BusInv
<1>1. Init => BusInv
  <2> SUFFICES ASSUME Init PROVE BusInv
    OBVIOUS
  <2>1. TypeOK /\ FreshInv
    BY DEF Init, TypeOK, FreshInv, HandlerStates
  <2>2. ASSUME NEW c \in Connections PROVE Passed(c) = <<>> /\ ~ Subscribed(c)
    <3>1. sent[c] = <<>> /\ Held(c) = <<>> /\ queue[c] = <<>> /\ handler[c] = "off"
      BY DEF Init, Held
    <3> QED
      BY <3>1 DEF Passed, Subscribed
  <2>3. OrderInv
    BY <2>2 DEF OrderInv, Rising
  <2>4. DroppedOnlyWhenBehind
    BY <2>2 DEF DroppedOnlyWhenBehind
  <2> QED
    BY <2>1, <2>2, <2>3, <2>4 DEF BusInv, NothingLostOtherwise
<1>2. BusInv /\ [Next]_vars => BusInv'
  BY TypeStep, OrderStep, AccountStep, BehindStep DEF BusInv
<1> QED
  BY <1>1, <1>2, PTL DEF Spec

\* The queues and the handlers keep their types.
THEOREM TypeCorrect == Spec => []TypeOK
<1>1. BusInv => TypeOK
  BY DEF BusInv
<1> QED
  BY <1>1, BusInvHolds, PTL

\* Every screen sees events in the order they were published, none twice and none
\* from before it connected, for any number of screens and any length of the queues.
THEOREM InOrder == Spec => []SentInOrder
<1>1. BusInv => SentInOrder
  <2> SUFFICES ASSUME BusInv, NEW c \in Connections
               PROVE  \A i \in DOMAIN sent[c] :
                         /\ sent[c][i] \in joined[c] + 1 .. published
                         /\ \A j \in DOMAIN sent[c] : i < j => sent[c][i] < sent[c][j]
    BY DEF SentInOrder
  <2>1. TypeOK /\ FreshInv /\ Rising(Passed(c), joined[c], published)
    BY DEF BusInv, OrderInv
  <2>2. sent[c] \in Seq(Nat) /\ Held(c) \o queue[c] \in Seq(Nat)
    BY <2>1, PassedType
  <2>3. Passed(c) = sent[c] \o (Held(c) \o queue[c])
    BY <2>1, PassedType
  <2>4. joined[c] \in Nat /\ published \in Nat
    BY <2>1 DEF TypeOK
  <2>5. Rising(sent[c], joined[c], published)
    BY <2>1, <2>2, <2>3, <2>4, RisingPrefix
  <2>6. \A i \in DOMAIN sent[c] : sent[c][i] \in Nat
    BY <2>2
  <2> QED
    BY <2>4, <2>5, <2>6 DEF Rising
<1> QED
  BY <1>1, BusInvHolds, PTL

\* While a screen is connected, each event published since is on its way to it, sent,
\* or was dropped for a full queue; none is lost otherwise, and none is dropped and sent.
THEOREM NothingLost == Spec => []NothingLostOtherwise
<1>1. BusInv => NothingLostOtherwise
  BY DEF BusInv
<1> QED
  BY <1>1, BusInvHolds, PTL
\* An event is dropped for a screen only when QueueCap older ones are still to
\* pass or have passed in a row: a screen that keeps up misses none, however slow
\* the others are.
THEOREM KeepingUpMissesNothing == Spec => []DroppedOnlyWhenBehind
<1>1. BusInv => DroppedOnlyWhenBehind
  BY DEF BusInv
<1> QED
  BY <1>1, BusInvHolds, PTL
-----------------------------------------------------------------------------
(***************************************************************************)
(* The voice control.                                                      *)
(***************************************************************************)

Recognizers == [stage : {"listening", "stopping", "ended"}, chained : BOOLEAN]

\* A recognizer that still listens has its onend, so its chain is counted when an
\* utterance hands it over to the reply.
ListeningIsChained == rec.stage = "listening" => rec.chained

VoiceInv ==
    /\ VoiceTypeOK
    /\ QuietWhenOff
    /\ ListeningIsChained
    /\ OneListenerPerStart

\* The chain of the recognizer r itself: one while its onend is to be called.
Own(r) == Count(r.chained)

LEMMA OwnType == \A r \in Recognizers : Own(r) = IF r.chained THEN 1 ELSE 0
BY DEF Own, Count, Recognizers

\* Whichever dictation loses the microphone, there are so many ends to come of each.
LEMMA TakeType ==
    ASSUME VoiceTypeOK, NEW pending \in [Modes -> Nat], Take(pending)
    PROVE  ends' \in [Modes -> Nat]
<1>1. CASE dictation = NoDictation
  BY <1>1 DEF Take
<1>2. CASE dictation # NoDictation
  BY <1>2 DEF Take, VoiceTypeOK
<1> QED
  BY <1>1, <1>2

\* _listen leaves what it finds when Voice is off; otherwise it adds a recognizer
\* with its onend, and the one that is replaced keeps its own.
LEMMA ListenStep ==
    ASSUME VoiceTypeOK, NEW m \in Modes, NEW r \in Recognizers,
           NEW left \in Nat, NEW pending \in [Modes -> Nat],
           Listen(m, r, left, pending)
    PROVE  /\ rec' \in Recognizers
           /\ aborted' \in Nat
           /\ dictation' \in Modes \cup {NoDictation}
           /\ ends' \in [Modes -> Nat]
           /\ m = "off" => rec' = r /\ aborted' = left
           /\ m # "off" => /\ rec'.chained
                           /\ Own(rec') + aborted' = left + Own(r) + 1
<1>1. CASE m = "off"
  BY <1>1 DEF Listen, VoiceTypeOK
<1>2. CASE m # "off"
  <2>1. /\ rec' = [stage |-> "listening", chained |-> TRUE]
        /\ aborted' = left + Own(r)
        /\ dictation' = NoDictation
        /\ Take(pending)
    BY <1>2 DEF Listen, Own
  <2>2. ends' \in [Modes -> Nat]
    BY <2>1, TakeType
  <2>3. rec'.chained /\ rec' \in Recognizers
    BY <2>1 DEF Recognizers
  <2>4. Own(r) \in Nat /\ Own(rec') = 1
    BY <2>3, OwnType
  <2>5. aborted' \in Nat /\ Own(rec') + aborted' = left + Own(r) + 1
    BY <2>1, <2>4
  <2> QED
    BY <1>2, <2>1, <2>2, <2>3, <2>5
<1> QED
  BY <1>1, <1>2

\* The same for afterSpeaking, in the present mode: the chain of what has ended
\* waits, goes on with a recognizer, or is over because Voice is off.
LEMMA AfterSpeakingStep ==
    ASSUME VoiceTypeOK, NEW r \in Recognizers, NEW left \in Nat,
           AfterSpeaking(r, left)
    PROVE  /\ rec' \in Recognizers
           /\ aborted' \in Nat /\ waiting' \in Nat
           /\ dictation' \in Modes \cup {NoDictation}
           /\ ends' \in [Modes -> Nat]
           /\ rec' = r \/ (mode # "off" /\ rec'.chained)
           /\ Own(rec') + aborted' + waiting' <= Own(r) + left + waiting + 1
<1>0. /\ mode \in Modes /\ ends \in [Modes -> Nat] /\ waiting \in Nat
      /\ dictation \in Modes \cup {NoDictation}
      /\ Own(r) \in Nat
  BY OwnType DEF VoiceTypeOK
<1>1. CASE speaking
  BY <1>0, <1>1 DEF AfterSpeaking
<1>2. CASE ~ speaking
  <2>1. Listen(mode, r, left, ends) /\ waiting' = waiting
    BY <1>2 DEF AfterSpeaking
  <2>2. rec' \in Recognizers /\ Own(rec') \in Nat
    BY <1>0, <2>1, ListenStep, OwnType
  <2> QED
    BY <1>0, <2>1, <2>2, ListenStep
<1> QED
  BY <1>1, <1>2

\* What the actions of Voice are proved from, and what they have to establish.
LEMMA VoiceFacts ==
    ASSUME VoiceInv
    PROVE  /\ VoiceTypeOK
           /\ mode \in Modes /\ rec \in Recognizers
           /\ aborted \in Nat /\ waiting \in Nat /\ turns \in Nat /\ starts \in Nat
           /\ taps \in Nat /\ speaking \in BOOLEAN
           /\ dictation \in Modes \cup {NoDictation}
           /\ ends \in [Modes -> Nat]
           /\ Own(rec) \in Nat
           /\ Own(rec) + aborted + waiting + turns <= starts
           /\ mode = "off" => rec.stage # "listening"
           /\ rec.stage = "listening" => rec.chained
<1>1. VoiceTypeOK /\ rec \in Recognizers
  BY DEF VoiceInv, VoiceTypeOK, Recognizers
<1>2. Own(rec) \in Nat
  BY <1>1, OwnType
<1>3. Own(rec) + aborted + waiting + turns <= starts
  BY DEF VoiceInv, OneListenerPerStart, Chains, Own
<1> QED
  BY <1>1, <1>2, <1>3 DEF VoiceInv, VoiceTypeOK, QuietWhenOff, ListeningIsChained

LEMMA VoiceGoal ==
    ASSUME mode' \in Modes, rec' \in Recognizers,
           aborted' \in Nat, waiting' \in Nat, turns' \in Nat, starts' \in Nat,
           taps' \in Nat, speaking' \in BOOLEAN,
           dictation' \in Modes \cup {NoDictation},
           ends' \in [Modes -> Nat],
           Own(rec') + aborted' + waiting' + turns' <= starts',
           mode' = "off" => rec'.stage # "listening",
           rec'.stage = "listening" => rec'.chained
    PROVE  VoiceInv'
<1>1. VoiceTypeOK'
  BY DEF VoiceTypeOK, Recognizers
<1>2. OneListenerPerStart'
  BY DEF OneListenerPerStart, Chains, Own
<1> QED
  BY <1>1, <1>2 DEF VoiceInv, QuietWhenOff, ListeningIsChained

\* Voice.start begins one chain and is one start.
LEMMA StartStep ==
    ASSUME VoiceInv, NEW m \in Modes, m # "off", NEW pending \in [Modes -> Nat],
           Start(m, pending), UNCHANGED <<waiting, turns, speaking>>, taps' \in Nat
    PROVE  VoiceInv'
<1>1. /\ mode' = m /\ starts' = starts + 1
      /\ Listen(m, rec, aborted, pending)
  BY DEF Start
<1>2. /\ rec' \in Recognizers
      /\ aborted' \in Nat
      /\ dictation' \in Modes \cup {NoDictation}
      /\ ends' \in [Modes -> Nat]
      /\ rec'.chained
      /\ Own(rec') + aborted' = aborted + Own(rec) + 1
  BY <1>1, VoiceFacts, ListenStep
<1>3. Own(rec') \in Nat
  BY <1>2, OwnType
<1>4. Own(rec') + aborted' + waiting' + turns' <= starts'
  BY <1>1, <1>2, <1>3, VoiceFacts
<1> QED
  BY <1>1, <1>2, <1>4, VoiceFacts, VoiceGoal

\* A recognizer that is silenced has neither an ear nor a chain.
LEMMA SilencedStep ==
    ASSUME NEW r \in Recognizers
    PROVE  /\ Silenced(r) \in Recognizers
           /\ Silenced(r).stage # "listening"
           /\ Own(Silenced(r)) = 0
<1>1. Silenced(r) \in Recognizers /\ ~ Silenced(r).chained
  BY DEF Silenced, Recognizers
<1> QED
  BY <1>1, OwnType DEF Silenced

LEMMA TapsStep ==
    ASSUME VoiceInv, TapWake \/ TapTalk \/ Dictate \/ SpeechStarts
    PROVE  VoiceInv'
<1>0. taps' \in Nat
  BY VoiceFacts DEF TapWake, TapTalk, Dictate, SpeechStarts, Tap
<1>m. "wake" \in Modes /\ "active" \in Modes /\ "off" \in Modes
  BY DEF Modes
<1>1. CASE TapWake /\ mode = "off"
  <2>1. Start("wake", ends) /\ UNCHANGED <<waiting, turns, speaking>>
    BY <1>1 DEF TapWake
  <2> QED
    BY <1>0, <1>m, <2>1, VoiceFacts, StartStep
<1>2. CASE TapWake /\ mode # "off"
  <2>1. /\ mode' = "off" /\ rec' = Silenced(rec)
        /\ UNCHANGED <<aborted, dictation, ends, starts, waiting, turns, speaking>>
    BY <1>2 DEF TapWake, Stop
  <2>2. rec' \in Recognizers /\ rec'.stage # "listening" /\ Own(rec') = 0
    BY <2>1, VoiceFacts, SilencedStep
  <2>3. Own(rec') + aborted' + waiting' + turns' <= starts'
    BY <2>1, <2>2, VoiceFacts
  <2> QED
    BY <1>0, <1>m, <2>1, <2>2, <2>3, VoiceFacts, VoiceGoal
<1>3. CASE TapTalk /\ mode = "active"
  <2>1. /\ mode' = "wake"
        /\ UNCHANGED <<rec, aborted, dictation, ends, starts, waiting, turns, speaking>>
    BY <1>3 DEF TapTalk
  <2> QED
    BY <1>0, <1>m, <2>1, VoiceFacts, VoiceGoal
<1>4. CASE TapTalk /\ mode # "active"
  <2>1. Start("active", ends) /\ UNCHANGED <<waiting, turns, speaking>>
    BY <1>4 DEF TapTalk
  <2> QED
    BY <1>0, <1>m, <2>1, VoiceFacts, StartStep
<1>5. CASE Dictate
  <2>1. /\ mode' = "off" /\ rec' = Ended /\ dictation' = mode /\ Take(ends)
        /\ UNCHANGED <<aborted, waiting, turns, speaking, starts>>
    BY <1>5 DEF Dictate
  <2>2. rec' \in Recognizers /\ rec'.stage # "listening" /\ ~ rec'.chained
    BY <2>1 DEF Ended, Recognizers
  <2>3. Own(rec') = 0
    BY <2>2, OwnType
  <2>4. Own(rec') + aborted' + waiting' + turns' <= starts'
    BY <2>1, <2>3, VoiceFacts
  <2>5. ends' \in [Modes -> Nat]
    BY <2>1, VoiceFacts, TakeType
  <2> QED
    BY <1>0, <1>m, <2>1, <2>2, <2>4, <2>5, VoiceFacts, VoiceGoal
<1>6. CASE SpeechStarts
  <2>1. /\ speaking' = TRUE
        /\ UNCHANGED <<mode, rec, aborted, waiting, turns, dictation, ends, starts>>
    BY <1>6 DEF SpeechStarts
  <2> QED
    BY <1>0, <2>1, VoiceFacts, VoiceGoal
<1> QED
  BY <1>1, <1>2, <1>3, <1>4, <1>5, <1>6

\* An utterance hands the chain of its recognizer over to the reply, or leaves it.
LEMMA OnResultStep ==
    ASSUME VoiceInv, OnResult
    PROVE  VoiceInv'
<1>0. /\ rec.stage = "listening" /\ mode # "off"
      /\ UNCHANGED <<aborted, waiting, dictation, ends, taps, starts>>
      /\ Ignore \/ Turn \/ Say("active") \/ Say("wake")
  BY DEF OnResult
<1>1. rec.chained /\ Own(rec) = 1
  BY <1>0, VoiceFacts, OwnType
<1>m. "wake" \in Modes /\ "active" \in Modes
  BY DEF Modes
<1>2. CASE Turn
  <2>1. /\ mode' = "active" /\ rec' = Silenced(rec) /\ turns' = turns + 1
        /\ speaking' = speaking
    BY <1>2 DEF Turn
  <2>2. rec' \in Recognizers /\ rec'.stage # "listening" /\ Own(rec') = 0
    BY <2>1, VoiceFacts, SilencedStep
  <2>3. Own(rec') + aborted' + waiting' + turns' <= starts'
    BY <1>0, <1>1, <2>1, <2>2, VoiceFacts
  <2> QED
    BY <1>0, <1>m, <2>1, <2>2, <2>3, VoiceFacts, VoiceGoal
<1>3. CASE Ignore \/ Say("active") \/ Say("wake")
  <2>1. /\ rec' = [rec EXCEPT !.stage = "stopping"] /\ turns' = turns
        /\ mode' \in {mode, "active", "wake"} /\ speaking' \in {speaking, TRUE}
    BY <1>3 DEF Ignore, Say
  <2>2. rec' \in Recognizers /\ rec'.stage # "listening" /\ rec'.chained
    BY <1>1, <2>1, VoiceFacts DEF Recognizers
  <2>3. Own(rec') = 1
    BY <2>2, OwnType
  <2>4. Own(rec') + aborted' + waiting' + turns' <= starts'
    BY <1>0, <1>1, <2>1, <2>3, VoiceFacts
  <2> QED
    BY <1>0, <1>m, <2>1, <2>2, <2>4, VoiceFacts, VoiceGoal
<1> QED
  BY <1>0, <1>2, <1>3

\* A reply that arrives and a restart that has waited go on with the chain, in
\* whatever mode they find.
LEMMA RestartStep ==
    ASSUME VoiceInv, TurnDone \/ Wait
    PROVE  VoiceInv'
<1>1. /\ Listen(mode, rec, aborted, ends)
      /\ UNCHANGED <<mode, taps, starts>> /\ speaking' \in BOOLEAN
      /\ waiting' \in Nat /\ turns' \in Nat /\ waiting' + turns' + 1 = waiting + turns
  <2>0. waiting \in Nat /\ turns \in Nat /\ speaking \in BOOLEAN
    BY VoiceFacts
  <2>1. CASE TurnDone
    <3>1. /\ turns > 0 /\ turns' = turns - 1
          /\ speaking' = speaking \/ speaking' = TRUE
          /\ Listen(mode, rec, aborted, ends)
          /\ UNCHANGED <<mode, waiting, taps, starts>>
      BY <2>1 DEF TurnDone
    <3>2. turns' \in Nat /\ waiting' + turns' + 1 = waiting + turns
      BY <2>0, <3>1
    <3> QED
      BY <2>0, <3>1, <3>2
  <2>2. CASE Wait
    <3>1. /\ waiting > 0 /\ waiting' = waiting - 1
          /\ Listen(mode, rec, aborted, ends)
          /\ UNCHANGED <<mode, turns, speaking, taps, starts>>
      BY <2>2 DEF Wait
    <3>2. waiting' \in Nat /\ waiting' + turns' + 1 = waiting + turns
      BY <2>0, <3>1
    <3> QED
      BY <2>0, <3>1, <3>2
  <2> QED
    BY <2>1, <2>2
<1>2. /\ rec' \in Recognizers
      /\ aborted' \in Nat
      /\ dictation' \in Modes \cup {NoDictation}
      /\ ends' \in [Modes -> Nat]
      /\ mode = "off" => rec' = rec /\ aborted' = aborted
      /\ mode # "off" => /\ rec'.chained
                         /\ Own(rec') + aborted' = aborted + Own(rec) + 1
  BY <1>1, VoiceFacts, ListenStep
<1>3. Own(rec') \in Nat
  BY <1>2, OwnType
<1>4. Own(rec') + aborted' <= aborted + Own(rec) + 1
  BY <1>2, <1>3, VoiceFacts
<1>5. Own(rec') + aborted' + waiting' + turns' <= starts'
  BY <1>1, <1>2, <1>3, <1>4, VoiceFacts
<1> QED
  BY <1>1, <1>2, <1>5, VoiceFacts, VoiceGoal

\* The end of a recognizer is the next link of its chain, if it still has an onend.
LEMMA RecognizerEndsStep ==
    ASSUME VoiceInv, RecEnds \/ AbortedEnds
    PROVE  VoiceInv'
<1>0. Ended \in Recognizers /\ Ended.stage # "listening" /\ ~ Ended.chained
  BY DEF Ended, Recognizers
<1>1. Own(Ended) = 0
  BY <1>0, OwnType
<1>2. UNCHANGED <<mode, turns, speaking, taps, starts>>
  BY DEF RecEnds, AbortedEnds
<1>3. CASE RecEnds /\ ~ rec.chained
  <2>1. rec' = Ended /\ UNCHANGED <<aborted, waiting, dictation, ends>>
    BY <1>3 DEF RecEnds
  <2>2. Own(rec') + aborted' + waiting' + turns' <= starts'
    BY <1>1, <1>2, <2>1, VoiceFacts
  <2> QED
    BY <1>0, <1>2, <2>1, <2>2, VoiceFacts, VoiceGoal
<1>4. ASSUME NEW r \in Recognizers, NEW left \in Nat, AfterSpeaking(r, left),
             Own(r) + left + 1 = Own(rec) + aborted,
             mode = "off" => r.stage # "listening",
             r.stage = "listening" => r.chained
      PROVE  VoiceInv'
  <2>1. /\ rec' \in Recognizers
        /\ aborted' \in Nat /\ waiting' \in Nat
        /\ dictation' \in Modes \cup {NoDictation}
        /\ ends' \in [Modes -> Nat]
        /\ rec' = r \/ (mode # "off" /\ rec'.chained)
        /\ Own(rec') + aborted' + waiting' <= Own(r) + left + waiting + 1
    BY <1>4, VoiceFacts, AfterSpeakingStep
  <2>2. Own(rec') \in Nat /\ Own(r) \in Nat
    BY <2>1, OwnType
  <2>3. Own(rec') + aborted' + waiting' + turns' <= starts'
    BY <1>2, <1>4, <2>1, <2>2, VoiceFacts
  <2> QED
    BY <1>2, <1>4, <2>1, <2>3, VoiceFacts, VoiceGoal
<1>5. CASE RecEnds /\ rec.chained
  <2>1. AfterSpeaking(Ended, aborted)
    BY <1>5 DEF RecEnds
  <2>2. Own(rec) = 1
    BY <1>5, VoiceFacts, OwnType
  <2>3. Own(Ended) + aborted + 1 = Own(rec) + aborted
    BY <1>1, <2>2, VoiceFacts
  <2> QED
    BY <1>0, <1>4, <2>1, <2>3, VoiceFacts
<1>6. CASE AbortedEnds
  <2>1. aborted > 0 /\ AfterSpeaking(rec, aborted - 1)
    BY <1>6 DEF AbortedEnds
  <2>2. aborted - 1 \in Nat /\ Own(rec) + (aborted - 1) + 1 = Own(rec) + aborted
    BY <2>1, VoiceFacts
  <2> QED
    BY <1>4, <2>1, <2>2, VoiceFacts
<1> QED
  BY <1>3, <1>5, <1>6

LEMMA OtherVoiceSteps ==
    ASSUME VoiceInv,
           \/ SpeechEnds \/ Dictated
           \/ \E m \in Modes : DictationEnds(m)
           \/ UNCHANGED voiceVars
    PROVE  VoiceInv'
<1>1. CASE SpeechEnds
  <2>1. /\ speaking' = FALSE
        /\ UNCHANGED <<mode, rec, aborted, waiting, turns, dictation, ends, taps, starts>>
    BY <1>1 DEF SpeechEnds
  <2> QED
    BY <2>1, VoiceFacts, VoiceGoal
<1>2. CASE Dictated
  <2>1. /\ dictation' = NoDictation /\ Take(ends)
        /\ UNCHANGED <<mode, rec, aborted, waiting, turns, speaking, taps, starts>>
    BY <1>2 DEF Dictated
  <2>2. ends' \in [Modes -> Nat]
    BY <2>1, VoiceFacts, TakeType
  <2> QED
    BY <2>1, <2>2, VoiceFacts, VoiceGoal
<1>3. ASSUME NEW m \in Modes, DictationEnds(m) PROVE VoiceInv'
  <2> DEFINE left == [ends EXCEPT ![m] = @ - 1]
  <2>1. left \in [Modes -> Nat]
    BY <1>3, VoiceFacts DEF DictationEnds
  <2>2. taps' \in Nat /\ UNCHANGED <<waiting, turns, speaking, taps>>
    BY <1>3, VoiceFacts DEF DictationEnds
  <2>3. CASE m = "off"
    <3>1. ends' = left /\ UNCHANGED <<mode, rec, aborted, dictation, starts>>
      BY <1>3, <2>3 DEF DictationEnds
    <3> QED
      BY <2>1, <2>2, <3>1, VoiceFacts, VoiceGoal
  <2>4. CASE m # "off"
    <3>1. Start(m, left)
      BY <1>3, <2>4 DEF DictationEnds
    <3> HIDE DEF left
    <3> QED
      BY <2>1, <2>2, <2>4, <3>1, StartStep
  <2> QED
    BY <2>3, <2>4
<1>4. CASE UNCHANGED voiceVars
  <2>1. UNCHANGED <<mode, rec, aborted, waiting, turns, speaking, dictation, ends, taps, starts>>
    BY <1>4 DEF voiceVars
  <2> QED
    BY <2>1, VoiceFacts, VoiceGoal
<1> QED
  BY <1>1, <1>2, <1>3, <1>4

LEMMA VoiceInvHolds == VoiceSpec => []VoiceInv
<1>1. VoiceInit => VoiceInv
  <2> SUFFICES ASSUME VoiceInit PROVE VoiceInv
    OBVIOUS
  <2>1. VoiceTypeOK
    <3>1. /\ mode \in Modes /\ ends \in [Modes -> Nat]
          /\ {aborted, waiting, turns, taps, starts} \subseteq Nat
      BY DEF VoiceInit, Modes
    <3>2. rec \in Recognizers /\ speaking \in BOOLEAN /\ dictation = NoDictation
      BY DEF VoiceInit, Ended, Recognizers
    <3> QED
      BY <3>1, <3>2 DEF VoiceTypeOK, Recognizers
  <2>3. /\ QuietWhenOff /\ ListeningIsChained
        /\ aborted = 0 /\ waiting = 0 /\ turns = 0 /\ starts = 0
    BY DEF VoiceInit, Ended, QuietWhenOff, ListeningIsChained
  <2>2. Count(rec.chained) = 0
    BY DEF VoiceInit, Ended, Count
  <2> QED
    BY <2>1, <2>2, <2>3 DEF VoiceInv, OneListenerPerStart, Chains
<1>2. VoiceInv /\ [VoiceNext]_voiceVars => VoiceInv'
  BY TapsStep, OnResultStep, RestartStep, RecognizerEndsStep, OtherVoiceSteps
     DEF VoiceNext
<1> QED
  BY <1>1, <1>2, PTL DEF VoiceSpec

\* The modes, the recognizer and the counts of pending callbacks keep their types.
THEOREM VoiceTypeCorrect == VoiceSpec => []VoiceTypeOK
<1>1. VoiceInv => VoiceTypeOK
  BY DEF VoiceInv
<1> QED
  BY <1>1, VoiceInvHolds, PTL

\* In mode "off" no recognizer of Voice listens, however many taps, dictations,
\* replies and restarts overlap.
THEOREM QuietOnceOff == VoiceSpec => []QuietWhenOff
<1>1. VoiceInv => QuietWhenOff
  BY DEF VoiceInv
<1> QED
  BY <1>1, VoiceInvHolds, PTL

\* There are never more chains of recognizers, restarts and replies than calls of
\* start(), for any number of taps.
THEOREM NoExtraListener == VoiceSpec => []OneListenerPerStart
<1>1. VoiceInv => OneListenerPerStart
  BY DEF VoiceInv
<1> QED
  BY <1>1, VoiceInvHolds, PTL
=============================================================================
