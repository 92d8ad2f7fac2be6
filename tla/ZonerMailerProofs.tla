--------------------------- MODULE ZonerMailerProofs ---------------------------
(***************************************************************************)
(* ZonerMailer implements MailQueue, for every set of mails, every bound   *)
(* and every kind of failure; what a sound server gets, and that every     *)
(* step of the thread is one towards each mail in the deque.               *)
(***************************************************************************)
EXTENDS ZonerMailer, Integers, TLAPS

\* The deque holds the positions of the last accepted mails, in order; the mail
\* in hand is the one before them.
InOrder ==
    /\ Len(queue) <= Len(accepted)
    /\ \A i \in 1 .. Len(queue) : queue[i] = Len(accepted) - Len(queue) + i
    /\ order # 0 => order = Len(accepted) - Len(queue)

Inv == TypeOK /\ InOrder

\* The empty mailer satisfies Inv.
LEMMA InvInit == Init => Inv
  <1> SUFFICES ASSUME Init PROVE Inv
    OBVIOUS
  <1>1. queue \in Seq(1 .. MaxMails) /\ accepted \in Seq(Mails) /\ Len(queue) = 0
        /\ Len(accepted) = 0
    BY DEF Init
  <1>2. TypeOK
    <2>1. queue \in Seq(1 .. MaxMails) /\ accepted \in Seq(Mails) /\ Len(accepted) <= MaxMails
      BY <1>1, BoundAssumption
    <2>2. thread \in Threads /\ order \in 0 .. MaxMails /\ delivered \subseteq 1 .. MaxMails
      BY BoundAssumption DEF Init, Threads
    <2>3. order # 0 <=> thread \in {"connect", "send"}
      BY DEF Init
    <2>4. link \in BOOLEAN /\ faults \subseteq Faults
      BY DEF Init
    <2>5. QED
      BY <2>1, <2>2, <2>3, <2>4 DEF TypeOK
  <1>3. InOrder
    BY <1>1 DEF Init, InOrder
  <1>4. QED
    BY <1>2, <1>3 DEF Inv

\* Appending and popping keep the deque in order, whatever fails.
LEMMA InvStep == Inv /\ [Next]_vars => Inv'
  <1> SUFFICES ASSUME Inv, [Next]_vars PROVE Inv'
    OBVIOUS
  <1> USE BoundAssumption DEF Inv, TypeOK, InOrder, Threads, Faults
  <1>1. ASSUME NEW m \in Mails, SendEmail(m) PROVE Inv'
    <2>1. /\ accepted' \in Seq(Mails) /\ Len(accepted') = Len(accepted) + 1
          /\ queue' \in Seq(1 .. MaxMails) /\ Len(queue') = Len(queue) + 1
      BY <1>1 DEF SendEmail
    <2>2. \A i \in 1 .. Len(queue') : queue'[i] = Len(accepted') - Len(queue') + i
      <3> TAKE i \in 1 .. Len(queue')
      <3>1. CASE i <= Len(queue)
        BY <1>1, <2>1, <3>1 DEF SendEmail
      <3>2. CASE i = Len(queue) + 1
        <4>1. queue'[i] = Len(accepted')
          BY <1>1, <2>1, <3>2 DEF SendEmail
        <4>2. QED
          BY <4>1, <2>1, <3>2
      <3>3. QED
        BY <2>1, <3>1, <3>2
    <2>3. TypeOK'
      BY <1>1, <2>1 DEF SendEmail
    <2>4. InOrder'
      <3>1. Len(queue') <= Len(accepted')
        BY <2>1
      <3>2. order' # 0 => order' = Len(accepted') - Len(queue')
        <4>1. order' = order /\ Len(accepted) \in Nat /\ Len(queue) \in Nat
          BY <1>1 DEF SendEmail
        <4>2. QED
          BY <2>1, <4>1
      <3>3. QED
        BY <2>2, <3>1, <3>2
    <2>5. QED
      BY <2>3, <2>4
  <1>2. ASSUME queue # <<>>, order = 0, order' = Head(queue), queue' = Tail(queue),
               thread' \in {"connect", "send"},
               UNCHANGED <<accepted, delivered, faults>>, link' \in BOOLEAN
        PROVE  Inv'
    <2>1. /\ queue' \in Seq(1 .. MaxMails) /\ Len(queue') = Len(queue) - 1
          /\ Len(queue) \in Nat \ {0} /\ order' = queue[1]
          /\ \A i \in 1 .. Len(queue') : queue'[i] = queue[i + 1]
      BY <1>2
    <2>2. \A i \in 1 .. Len(queue') : queue'[i] = Len(accepted') - Len(queue') + i
      BY <1>2, <2>1
    <2>3. order' \in 1 .. MaxMails /\ order' = Len(accepted') - Len(queue')
      BY <1>2, <2>1
    <2>4. QED
      BY <1>2, <2>1, <2>2, <2>3
  <1>3. CASE PopFirst
    <2>1. CASE queue # <<>>
      <3>1. /\ order = 0 /\ order' = Head(queue) /\ queue' = Tail(queue)
            /\ thread' \in {"connect", "send"} /\ UNCHANGED <<link, accepted, delivered, faults>>
        BY <1>3, <2>1 DEF PopFirst
      <3>2. QED
        BY <1>2, <2>1, <3>1
    <2>2. CASE queue = <<>>
      BY <1>3, <2>2 DEF PopFirst
    <2>3. QED
      BY <2>1, <2>2
  <1>4. CASE PopNext
    <2>1. CASE queue # <<>>
      <3>1. /\ order = 0 /\ order' = Head(queue) /\ queue' = Tail(queue)
            /\ thread' \in {"connect", "send"} /\ UNCHANGED <<link, accepted, delivered, faults>>
        BY <1>4, <2>1 DEF PopNext
      <3>2. QED
        BY <1>2, <2>1, <3>1
    <2>2. CASE queue = <<>>
      BY <1>4, <2>2 DEF PopNext
    <2>3. QED
      BY <2>1, <2>2
  <1>5. CASE Connect \/ ConnectRaises \/ QuitRaises
    <2>1. UNCHANGED <<queue, accepted, delivered>> /\ order' \in {0, order}
      BY <1>5 DEF Connect, ConnectRaises, QuitRaises
    <2>2. TypeOK'
      <3>1. CASE Connect
        BY <2>1, <3>1 DEF Connect
      <3>2. CASE ConnectRaises
        BY <2>1, <3>2 DEF ConnectRaises
      <3>3. CASE QuitRaises
        BY <2>1, <3>3 DEF QuitRaises
      <3>4. QED
        BY <1>5, <3>1, <3>2, <3>3
    <2>3. QED
      BY <2>1, <2>2
  <1>6. CASE HandleThreaded
    <2>1. UNCHANGED <<queue, accepted>> /\ order' = 0
      BY <1>6 DEF HandleThreaded
    <2>2. TypeOK'
      <3>1. delivered' \subseteq 1 .. MaxMails
        <4>1. order \in 1 .. MaxMails
          BY <1>6 DEF HandleThreaded
        <4>2. delivered' \in {delivered, delivered \cup {order}}
          BY <1>6 DEF HandleThreaded
        <4>3. QED
          BY <4>1, <4>2
      <3>2. QED
        BY <1>6, <2>1, <3>1 DEF HandleThreaded
    <2>3. QED
      BY <2>1, <2>2
  <1>7. CASE Wake \/ LinkBreak
    BY <1>7 DEF Wake, LinkBreak
  <1>8. CASE UNCHANGED vars
    BY <1>8 DEF vars
  <1>9. QED
    BY <1>1, <1>3, <1>4, <1>5, <1>6, <1>7, <1>8 DEF Next, Run

\* Inv holds at all times.
LEMMA InvAlways == Spec => []Inv
  BY InvInit, InvStep, PTL DEF Spec

\* The deque and the thread's locals keep their types, and a mail is in hand
\* exactly while a connection is made for it or it is being sent.
THEOREM MailerTypeCorrect == Spec => []TypeOK
  <1>1. Inv => TypeOK
    BY DEF Inv
  <1>2. QED
    BY <1>1, InvAlways, PTL

\* Mails are dealt with once each and in the order of send_email, whatever the
\* server refuses, drops or raises (send_threaded, zoner.py:40-55).
THEOREM QueueImplemented == Spec => ImplementsMailQueue
  <1>1. Init => Queue!Init
    BY DEF Init, Queue!Init, Settled
  <1>2. Inv /\ [Next]_vars => [Queue!Next]_(Queue!vars)
    <2> SUFFICES ASSUME Inv, [Next]_vars PROVE [Queue!Next]_(Queue!vars)
      OBVIOUS
    <2> USE BoundAssumption DEF Inv, TypeOK, InOrder, Threads, Settled,
          Queue!Next, Queue!vars, Queue!Accept, Queue!Settle
    <2>1. ASSUME NEW m \in Mails, SendEmail(m) PROVE Queue!Next
      BY <2>1 DEF SendEmail
    <2>2. CASE PopFirst
      <3>1. CASE queue # <<>>
        <4>1. Len(queue) \in Nat \ {0} /\ Len(Tail(queue)) = Len(queue) - 1
          BY <3>1
        <4>2. order = 0 /\ order' = queue[1] /\ queue' = Tail(queue)
              /\ UNCHANGED <<accepted, delivered>>
          BY <2>2, <3>1 DEF PopFirst
        <4>3. order' # 0
          BY <4>1, <4>2
        <4>4. QED
          BY <4>1, <4>2, <4>3
      <3>2. CASE queue = <<>>
        BY <2>2, <3>2 DEF PopFirst
      <3>3. QED
        BY <3>1, <3>2
    <2>3. CASE PopNext
      <3>1. CASE queue # <<>>
        <4>1. Len(queue) \in Nat \ {0} /\ Len(Tail(queue)) = Len(queue) - 1
          BY <3>1
        <4>2. order = 0 /\ order' = queue[1] /\ queue' = Tail(queue)
              /\ UNCHANGED <<accepted, delivered>>
          BY <2>3, <3>1 DEF PopNext
        <4>3. order' # 0
          BY <4>1, <4>2
        <4>4. QED
          BY <4>1, <4>2, <4>3
      <3>2. CASE queue = <<>>
        BY <2>3, <3>2 DEF PopNext
      <3>3. QED
        BY <3>1, <3>2
    <2>4. CASE Connect \/ Wake \/ LinkBreak \/ QuitRaises
      BY <2>4 DEF Connect, Wake, LinkBreak, QuitRaises
    <2>5. CASE HandleThreaded
      <3>1. order \in 1 .. MaxMails /\ order' = 0 /\ UNCHANGED <<queue, accepted>>
        BY <2>5 DEF HandleThreaded
      <3>2. delivered' \in {delivered, delivered \cup {order}}
        BY <2>5 DEF HandleThreaded
      <3>3. Settled + 1 = order /\ Settled' = order /\ Settled < Len(accepted)
        BY <3>1
      <3>4. QED
        BY <3>1, <3>2, <3>3
    <2>6. CASE ConnectRaises
      BY <2>6 DEF ConnectRaises
    <2>7. CASE UNCHANGED vars
      BY <2>7 DEF vars
    <2>8. QED
      BY <2>1, <2>2, <2>3, <2>4, <2>5, <2>6, <2>7 DEF Next, Run
  <1>3. QED
    BY <1>1, <1>2, InvAlways, PTL DEF Spec, ImplementsMailQueue, Queue!Spec
-----------------------------------------------------------------------------
(* What becomes of an accepted mail *)

\* How many mails are dealt with, before and after a step.
LEMMA SettledStep ==
    ASSUME Inv, [Next]_vars
    PROVE  /\ Settled \in Nat /\ Settled <= Len(accepted) /\ Len(accepted) \in Nat
           /\ order # 0 => order = Settled + 1
           /\ order = 0 => Settled = Len(accepted) - Len(queue)
           /\ IF HandleThreaded \/ ConnectRaises THEN Settled' = Settled + 1 ELSE Settled' = Settled
  <1> USE BoundAssumption DEF Inv, TypeOK, InOrder, Threads
  <1>1. Len(queue) \in Nat /\ Len(accepted) \in Nat /\ order \in Nat
    OBVIOUS
  <1>2. Settled \in Nat /\ Settled <= Len(accepted)
        /\ (order # 0 => order = Settled + 1)
        /\ (order = 0 => Settled = Len(accepted) - Len(queue))
    BY <1>1 DEF Settled
  <1>3. ASSUME HandleThreaded \/ ConnectRaises PROVE Settled' = Settled + 1
    <2>1. order # 0 /\ order' = 0 /\ UNCHANGED <<queue, accepted>>
      BY <1>3 DEF HandleThreaded, ConnectRaises
    <2>2. QED
      BY <1>1, <2>1 DEF Settled
  <1>4. ASSUME NEW m \in Mails, SendEmail(m) PROVE Settled' = Settled
    <2>1. Len(accepted') = Len(accepted) + 1 /\ Len(queue') = Len(queue) + 1 /\ order' = order
      BY <1>4 DEF SendEmail
    <2>2. QED
      BY <1>1, <2>1 DEF Settled
  <1>5. ASSUME PopFirst \/ PopNext PROVE Settled' = Settled
    <2>1. CASE queue # <<>>
      <3>1. order = 0 /\ order' = queue[1] /\ queue' = Tail(queue) /\ accepted' = accepted
        BY <1>5, <2>1 DEF PopFirst, PopNext
      <3>2. Len(queue) \in Nat \ {0} /\ Len(queue') = Len(queue) - 1 /\ order' # 0
        BY <2>1, <3>1
      <3>3. QED
        BY <1>1, <3>1, <3>2 DEF Settled
    <2>2. CASE queue = <<>>
      BY <1>5, <2>2 DEF PopFirst, PopNext, Settled
    <2>3. QED
      BY <2>1, <2>2
  <1>6. ASSUME Connect \/ Wake \/ LinkBreak \/ QuitRaises \/ UNCHANGED vars PROVE Settled' = Settled
    BY <1>6 DEF Connect, Wake, LinkBreak, QuitRaises, vars, Settled
  <1>7. IF HandleThreaded \/ ConnectRaises THEN Settled' = Settled + 1 ELSE Settled' = Settled
    BY <1>3, <1>4, <1>5, <1>6 DEF Next, Run
  <1>8. QED
    BY <1>1, <1>2, <1>7

\* The server takes every mail and keeps its connections.
Sound == faults \cap {"send", "link"} = {}

\* No mail is delivered that is not dealt with, and with a sound server none is
\* dealt with that is not delivered, but for the one that an error in connecting
\* takes along with the thread.
DeliveredInOrder ==
    /\ delivered \subseteq 1 .. Settled
    /\ Sound => \/ delivered = 1 .. Settled
                \/ thread = "dead" /\ delivered = 1 .. (Settled - 1)

\* Nothing but an error in connecting, logging in or QUIT ends the thread.
OnlyErrorsEnd == thread = "dead" => "connect" \in faults

\* The thread sends on an open connection.
LinkOpen == Sound /\ thread \in {"send", "next"} => link

Handling == DeliveredInOrder /\ OnlyErrorsEnd /\ LinkOpen

LEMMA HandlingInit == Init => Handling
  <1> SUFFICES ASSUME Init PROVE Handling
    OBVIOUS
  <1>1. Settled = 0
    BY DEF Init, Settled
  <1>2. DeliveredInOrder
    BY <1>1 DEF Init, DeliveredInOrder
  <1>3. QED
    BY <1>2 DEF Init, Handling, OnlyErrorsEnd, LinkOpen

LEMMA HandlingStep == Inv /\ Handling /\ [Next]_vars => Handling'
  <1> SUFFICES ASSUME Inv, Handling, [Next]_vars PROVE Handling'
    OBVIOUS
  <1>s. /\ Settled \in Nat
        /\ order # 0 => order = Settled + 1
        /\ IF HandleThreaded \/ ConnectRaises THEN Settled' = Settled + 1 ELSE Settled' = Settled
    BY SettledStep
  <1>f. /\ faults' = faults
        /\ thread \in {"connect", "send"} => order # 0
    BY DEF Next, Run, SendEmail, PopFirst, Connect, ConnectRaises, HandleThreaded, PopNext, QuitRaises,
           Wake, LinkBreak, vars, Inv, TypeOK
  <1>1. CASE HandleThreaded
    <2>1. thread = "send" /\ order = Settled + 1 /\ Settled' = Settled + 1 /\ thread' = "next" /\ link' = link
      BY <1>1, <1>s, <1>f DEF HandleThreaded
    <2>2. delivered' \in {delivered, delivered \cup {order}}
          /\ (Sound => delivered' = delivered \cup {order})
      BY <1>1, <2>1 DEF HandleThreaded, Handling, LinkOpen, Sound
    <2>3. delivered \subseteq 1 .. Settled /\ (Sound => delivered = 1 .. Settled)
      BY <2>1 DEF Handling, DeliveredInOrder
    <2>4. delivered' \subseteq 1 .. (Settled + 1) /\ (Sound => delivered' = 1 .. (Settled + 1))
      <3>1. PICK n \in Nat : n = Settled
        BY <1>s
      <3>2. 1 .. (n + 1) = (1 .. n) \cup {n + 1}
        BY <3>1
      <3>3. order = n + 1
        BY <2>1, <3>1
      <3>4. QED
        BY <2>2, <2>3, <3>1, <3>2, <3>3, Zenon
    <2>5. DeliveredInOrder'
      BY <1>f, <2>1, <2>4 DEF DeliveredInOrder, Sound
    <2>6. QED
      BY <1>f, <2>1, <2>5 DEF Handling, OnlyErrorsEnd, LinkOpen, Sound
  <1>2. CASE ConnectRaises
    <2>1. thread = "connect" /\ Settled' = Settled + 1 /\ thread' = "dead" /\ "connect" \in faults
          /\ delivered' = delivered
      BY <1>2, <1>s DEF ConnectRaises
    <2>2. delivered \subseteq 1 .. Settled /\ (Sound => delivered = 1 .. Settled)
      BY <2>1 DEF Handling, DeliveredInOrder
    <2>3. delivered \subseteq 1 .. (Settled + 1) /\ (Settled + 1) - 1 = Settled
      BY <1>s, <2>2
    <2>4. DeliveredInOrder'
      BY <1>f, <2>1, <2>2, <2>3 DEF DeliveredInOrder, Sound
    <2>5. QED
      BY <1>f, <2>1, <2>4 DEF Handling, OnlyErrorsEnd, LinkOpen, Sound
  <1>3. CASE ~HandleThreaded /\ ~ConnectRaises
    <2>1. Settled' = Settled
      BY <1>3, <1>s
    <2>2. delivered' = delivered /\ (thread = "dead" => thread' = "dead")
      BY <1>3 DEF Next, Run, SendEmail, PopFirst, Connect, PopNext, QuitRaises, Wake, LinkBreak, vars
    <2>3. DeliveredInOrder'
      BY <1>f, <2>1, <2>2 DEF Handling, DeliveredInOrder, Sound
    <2>4. OnlyErrorsEnd'
      BY <1>3, <1>f DEF Next, Run, SendEmail, PopFirst, Connect, PopNext, QuitRaises, Wake, LinkBreak,
                        vars, Handling, OnlyErrorsEnd
    <2>5. LinkOpen'
      BY <1>3, <1>f DEF Next, Run, SendEmail, PopFirst, Connect, PopNext, QuitRaises, Wake, LinkBreak,
                        vars, Handling, LinkOpen, Sound
    <2>6. QED
      BY <2>3, <2>4, <2>5 DEF Handling
  <1>4. QED
    BY <1>1, <1>2, <1>3

\* A mail that the thread pops is delivered, in its turn and once, by a server that
\* takes it and keeps the connection (send_threaded and handle_threaded,
\* zoner.py:40-72); only an error outside handle_threaded ends the thread, and it
\* takes one mail along.
THEOREM DeliveredUnlessRefused == Spec => [](DeliveredInOrder /\ OnlyErrorsEnd)
  <1>1. Handling => DeliveredInOrder /\ OnlyErrorsEnd
    BY DEF Handling
  <1>2. QED
    BY <1>1, HandlingInit, HandlingStep, InvAlways, PTL DEF Spec

\* How far the thread is from the next mail.
Distance == CASE thread = "sleep" -> 3
              [] thread = "top" -> 2
              [] thread \in {"connect", "next"} -> 1
              [] OTHER -> 0

\* How many steps of the thread there are until the i-th mail is dealt with, at most.
Left(i) == IF i <= Settled THEN 0 ELSE 2 * (i - Settled) + Distance

\* Each step of the thread brings it nearer to every mail in the deque, also the
\* steps that end in sleep; no mail that is accepted later sets one back.
OnlyForward ==
    [][\A i \in 1 .. Len(accepted) : /\ Left(i)' <= Left(i)
                                     /\ Run /\ i > Settled => Left(i)' < Left(i)]_vars

THEOREM AlwaysForward == Spec => OnlyForward
  <1> DEFINE Forward == \A i \in 1 .. Len(accepted) : /\ Left(i)' <= Left(i)
                                                      /\ Run /\ i > Settled => Left(i)' < Left(i)
  <1>1. ASSUME Inv, [Next]_vars PROVE Forward
    <2> SUFFICES ASSUME NEW i \in 1 .. Len(accepted)
                 PROVE  /\ Left(i)' <= Left(i)
                        /\ Run /\ i > Settled => Left(i)' < Left(i)
      OBVIOUS
    <2>s. /\ Settled \in Nat /\ Len(accepted) \in Nat /\ i \in Nat
          /\ order # 0 => order = Settled + 1
          /\ order = 0 => Settled = Len(accepted) - Len(queue)
          /\ IF HandleThreaded \/ ConnectRaises THEN Settled' = Settled + 1 ELSE Settled' = Settled
      BY <1>1, SettledStep
    <2>d. Distance \in 0..3 /\ Distance' \in 0..3
      BY DEF Distance
    <2>1. CASE i <= Settled
      <3>1. i <= Settled'
        BY <2>s, <2>1
      <3>2. Left(i) = 0 /\ Left(i)' = 0
        BY <2>1, <3>1 DEF Left
      <3>3. QED
        BY <2>s, <2>1, <3>2
    <2>2. CASE i > Settled
      <3>1. Left(i) = 2 * (i - Settled) + Distance
        BY <2>s, <2>2 DEF Left
      <3>2. CASE HandleThreaded \/ ConnectRaises
        <4>1. Distance' <= 1 /\ Settled' = Settled + 1
          BY <2>s, <3>2 DEF HandleThreaded, ConnectRaises, Distance
        <4>2. Left(i)' = 0 \/ Left(i)' = 2 * (i - (Settled + 1)) + Distance'
          BY <4>1 DEF Left
        <4>3. Left(i)' < Left(i)
          BY <2>s, <2>d, <2>2, <3>1, <4>1, <4>2
        <4>4. QED
          BY <2>s, <2>d, <3>1, <4>2, <4>1, <4>3
      <3>3. CASE ~(HandleThreaded \/ ConnectRaises)
        <4>1. Settled' = Settled /\ Left(i)' = 2 * (i - Settled) + Distance'
          BY <2>s, <2>2, <3>3 DEF Left
        <4>2. ASSUME Run PROVE Distance' < Distance
          <5>1. thread \in {"top", "next"} => queue # <<>>
            <6>1. thread \in {"top", "next"} => order = 0
              BY <1>1 DEF Inv, TypeOK
            <6>2. order = 0 => Len(queue) # 0
              BY <2>s, <2>2
            <6>3. queue = <<>> => Len(queue) = 0
              OBVIOUS
            <6>4. QED
              BY <6>1, <6>2, <6>3
          <5>2. CASE PopFirst
            BY <5>1, <5>2 DEF PopFirst, Distance
          <5>3. CASE Connect
            BY <5>3 DEF Connect, Distance
          <5>4. CASE PopNext
            BY <5>1, <5>4 DEF PopNext, Distance
          <5>5. CASE Wake
            BY <5>5 DEF Wake, Distance
          <5>6. QED
            BY <3>3, <4>2, <5>2, <5>3, <5>4, <5>5 DEF Run
        <4>3. ASSUME ~Run PROVE Distance' <= Distance
          <5>1. CASE UNCHANGED thread
            BY <5>1 DEF Distance
          <5>2. CASE QuitRaises
            BY <2>d, <5>2 DEF QuitRaises, Distance
          <5>3. LinkBreak \/ UNCHANGED vars => UNCHANGED thread
            BY DEF LinkBreak, vars
          <5>4. (\E m \in Mails : SendEmail(m)) => UNCHANGED thread
            BY DEF SendEmail
          <5>5. QED
            BY <1>1, <3>3, <4>3, <5>1, <5>2, <5>3, <5>4 DEF Next
        <4>4. PICK k \in Int : k = 2 * (i - Settled)
          BY <2>s
        <4>5. Left(i) = k + Distance /\ Left(i)' = k + Distance'
          BY <3>1, <4>1, <4>4
        <4>6. CASE Run
          <5>1. Distance' < Distance
            BY <4>2, <4>6
          <5>2. Left(i)' < Left(i) /\ Left(i)' <= Left(i)
            BY <2>d, <4>4, <4>5, <5>1
          <5>3. QED
            BY <5>2
        <4>7. CASE ~Run
          <5>1. Distance' <= Distance
            BY <4>3, <4>7
          <5>2. Left(i)' <= Left(i)
            BY <2>d, <4>4, <4>5, <5>1
          <5>3. QED
            BY <4>7, <5>2
        <4>8. QED
          BY <4>6, <4>7
      <3>4. QED
        BY <3>2, <3>3
    <2>3. QED
      BY <2>s, <2>1, <2>2
  <1>2. Inv /\ [Next]_vars => [Forward]_vars
    BY <1>1
  <1>3. QED
    BY <1>2, InvAlways, PTL DEF Spec, OnlyForward
=============================================================================
