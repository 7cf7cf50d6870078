-------------------------- MODULE TaskRunnerProofs --------------------------
(* Theorems about TaskRunner: its types, and that answers fit messages.    *)
EXTENDS TaskRunner, SequenceTheorems, TLAPS

Part == [text : Commands \cup {"statistics", "{error:unknown_command}"}, at : Nat]

Types ==
  /\ server \in {"starting", "serving", "spinning", "dead"}
  /\ fetching \in Clients \cup {Nobody}
  /\ session \in [Clients -> {"none", "handshake", "reading", "writing", "failed", "ended"}]
  /\ stream \in [Clients -> {"open", "closed", "broken"}]
  /\ inbox \in [Clients -> Seq(Commands)] /\ torn \in [Clients -> Seq(Commands)]
  /\ buffer \in [Clients -> Seq(Part)] /\ traffic \in 0..MaxTraffic
  /\ asked \in [Clients -> Seq([command : Commands, at : Nat])]
  /\ answers \in [Clients -> Seq(Seq(Part))]

(* How many messages of a client the session has taken from its inbox, as  *)
(* far as it answers them.                                                 *)
Taken(c) ==
  IF session[c] = "writing" THEN Len(answers[c]) + 1 ELSE Len(answers[c])

(* The inbox has not been lost with the connection.                        *)
Kept(c) == session[c] # "ended" /\ (stream[c] # "broken" \/ inbox[c] # <<>>)

(* The books of one client: what it asked is what was answered, then what  *)
(* is being answered, then what is in the inbox.                           *)
BufferBook(c) ==
  /\ session[c] \in {"none", "handshake", "reading"} => buffer[c] = <<>>
  /\ fetching = c => session[c] \in {"writing", "failed"} /\ buffer[c] = <<>>
AskedBook(c) ==
  /\ Taken(c) <= Len(asked[c])
  /\ \A i \in 1..Len(asked[c]) : asked[c][i].at <= traffic
InboxBook(c) ==
  Kept(c) =>
    /\ Taken(c) + Len(inbox[c]) = Len(asked[c])
    /\ \A i \in 1..Len(inbox[c]) : inbox[c][i] = asked[c][Taken(c) + i].command
AnswersBook(c) ==
  \A i \in 1..Len(answers[c]) : IsAnswer(answers[c][i], asked[c][i])
AnswerBook(c) ==
  session[c] = "writing" /\ server # "dead" =>
    IF fetching = c THEN asked[c][Taken(c)].command = "{netstat}"
    ELSE IsAnswer(buffer[c], asked[c][Taken(c)])
Book(c) ==
  BufferBook(c) /\ AskedBook(c) /\ InboxBook(c) /\ AnswersBook(c) /\ AnswerBook(c)

IInv == Types /\ \A c \in Clients : Book(c)

LEMMA PartTypes ==
  /\ \A command \in Commands : Text(command) \in Part
  /\ UnknownCommand \in Part
  /\ \A n \in Nat : Stats(n) \in Part
BY DEF Text, UnknownCommand, Stats, Part

LEMMA AppendToOne ==
  ASSUME NEW S, NEW x \in S, NEW y \in S
  PROVE  Append(<<x>>, y) = <<x, y>>
<1>1. <<x>> \in Seq(S) /\ <<x, y>> \in Seq(S)
  OBVIOUS
<1>2. /\ Append(<<x>>, y) \in Seq(S) /\ Len(Append(<<x>>, y)) = 2
      /\ Append(<<x>>, y)[1] = x /\ Append(<<x>>, y)[2] = y
  BY <1>1, AppendProperties
<1>3. Len(<<x, y>>) = 2 /\ <<x, y>>[1] = x /\ <<x, y>>[2] = y
  OBVIOUS
<1>4. \A i \in 1..Len(Append(<<x>>, y)) : Append(<<x>>, y)[i] = <<x, y>>[i]
  BY <1>2, <1>3
<1>5. QED
  BY <1>1, <1>2, <1>3, <1>4, SeqEqual

LEMMA Shift ==
  ASSUME NEW l \in Nat \ {0}, NEW m, m = l - 1, NEW j \in 1..m, NEW a \in Nat
  PROVE  j \in Nat /\ j + 1 \in 1..l /\ a + (j + 1) = (a + 1) + j
OBVIOUS

(* What an action leaves alone it leaves in order.                         *)
LEMMA Frame ==
  ASSUME Types, Types', NEW c \in Clients, Book(c),
         session'[c] = session[c], stream'[c] = stream[c], inbox'[c] = inbox[c],
         buffer'[c] = buffer[c], asked'[c] = asked[c], answers'[c] = answers[c],
         traffic' >= traffic, server = "dead" => server' = "dead",
         (fetching' = c <=> fetching = c) \/ (server' = "dead" /\ fetching' # c)
  PROVE  Book(c)'
<1>1. traffic \in Nat /\ traffic' \in Nat
  BY BoundsAssumption DEF Types
<1>2. /\ asked[c] \in Seq([command : Commands, at : Nat])
      /\ answers[c] \in Seq(Seq(Part)) /\ inbox[c] \in Seq(Commands)
  BY DEF Types
<1>3. Taken(c) \in Nat /\ Taken(c) <= Len(asked[c]) /\ Len(answers[c]) <= Len(asked[c])
  <2>1. Len(answers[c]) \in Nat /\ Len(asked[c]) \in Nat
    BY <1>2
  <2>2. Taken(c) <= Len(asked[c])
    BY DEF Book, AskedBook
  <2>3. Taken(c) \in {Len(answers[c]), Len(answers[c]) + 1}
    BY <2>1 DEF Taken
  <2>4. QED
    BY <2>1, <2>2, <2>3
<1>4. Taken(c)' = Taken(c) /\ (Kept(c)' <=> Kept(c))
  BY DEF Taken, Kept
<1>5. BufferBook(c)' /\ InboxBook(c)'
  BY <1>4 DEF Book, BufferBook, InboxBook
<1>6. AskedBook(c)'
  <2>1. ASSUME NEW i \in 1..Len(asked[c]) PROVE asked[c][i].at <= traffic'
    <3>1. asked[c][i].at \in Nat
      <4>1. asked[c][i] \in [command : Commands, at : Nat]
        BY <1>2, ElementOfSeq
      <4>2. QED
        BY <4>1
    <3>2. asked[c][i].at <= traffic
      BY DEF Book, AskedBook
    <3>3. QED
      BY <1>1, <3>1, <3>2
  <2>2. QED
    BY <1>3, <1>4, <2>1 DEF AskedBook
<1>7. ASSUME NEW i \in 1..Len(asked[c]), NEW b, IsAnswer(b, asked[c][i])
      PROVE  IsAnswer(b, asked[c][i])'
  <2>1. asked[c][i].at \in Nat
    <3>1. asked[c][i] \in [command : Commands, at : Nat]
      BY <1>2, ElementOfSeq
    <3>2. QED
      BY <3>1
  <2>2. asked[c][i].at..traffic \subseteq asked[c][i].at..traffic'
    BY <1>1, <2>1
  <2>3. QED
    BY <1>7, <2>2 DEF IsAnswer
<1>8. AnswersBook(c)'
  <2>1. ASSUME NEW i \in 1..Len(answers[c]) PROVE IsAnswer(answers[c][i], asked[c][i])'
    <3>1. i \in 1..Len(asked[c])
      BY <1>2, <1>3
    <3>2. IsAnswer(answers[c][i], asked[c][i])
      BY DEF Book, AnswersBook
    <3>3. QED
      BY <1>7, <3>1, <3>2
  <2>2. QED
    BY <2>1 DEF AnswersBook, IsAnswer
<1>9. AnswerBook(c)'
  <2>1. session[c] = "writing" => Taken(c) \in 1..Len(asked[c])
    BY <1>2, <1>3 DEF Taken
  <2>2. QED
    BY <1>4, <1>7, <2>1 DEF Book, AnswerBook, IsAnswer
<1>10. QED
  BY <1>5, <1>6, <1>8, <1>9 DEF Book

LEMMA TypesInit == Init => Types
BY BoundsAssumption DEF Init, Types, Everyone

LEMMA RespondTypes ==
  ASSUME Types, NEW c \in Clients, NEW commands \in Seq(Part), Respond(c, commands)
  PROVE  fetching' \in Clients \cup {Nobody} /\ buffer' \in [Clients -> Seq(Part)]
<1>1. buffer[c] \o commands \in Seq(Part)
  BY ConcatProperties DEF Types
<1>2. Append(buffer[c] \o commands, UnknownCommand) \in Seq(Part)
  BY <1>1, PartTypes, AppendProperties
<1>3. <<>> \in Seq(Part)
  OBVIOUS
<1>4. \/ fetching' = c /\ buffer' = [buffer EXCEPT ![c] = <<>>]
      \/ /\ buffer' = [buffer EXCEPT ![c] = Append(buffer[c] \o commands, UnknownCommand)]
         /\ fetching' = fetching
  BY DEF Respond
<1>5. QED
  BY <1>2, <1>3, <1>4 DEF Types

LEMMA TypesInductive == Types /\ [Next]_vars => Types'
<1> SUFFICES ASSUME Types, [Next]_vars PROVE Types'
  OBVIOUS
<1> USE DEF Types
<1>1. CASE Listen \/ ListenFails \/ FetchThrows
  BY <1>1 DEF Listen, ListenFails, FetchThrows, peer, history
<1>2. CASE TrafficFlows
  <2>1. traffic' \in 0..MaxTraffic
    BY <1>2, BoundsAssumption DEF TrafficFlows
  <2>2. QED
    BY <1>2, <2>1 DEF TrafficFlows, peer, history
<1>3. ASSUME NEW c \in Clients, ListenerAccepts(c) \/ Leave(c) PROVE Types'
  BY <1>3 DEF ListenerAccepts, Leave, Goto, peer, history
<1>4. ASSUME NEW c \in Clients, Send(c) PROVE Types'
  <2>1. PICK command \in Commands :
          /\ inbox' = [inbox EXCEPT ![c] = Append(@, command)]
          /\ asked' = [asked EXCEPT ![c] = Append(@, [command |-> command, at |-> traffic])]
    BY <1>4 DEF Send
  <2>2. Append(inbox[c], command) \in Seq(Commands)
    BY AppendProperties
  <2>3. [command |-> command, at |-> traffic] \in [command : Commands, at : Nat]
    BY BoundsAssumption
  <2>4. Append(asked[c], [command |-> command, at |-> traffic]) \in Seq([command : Commands, at : Nat])
    BY <2>3, AppendProperties
  <2>5. inbox' \in [Clients -> Seq(Commands)] /\ asked' \in [Clients -> Seq([command : Commands, at : Nat])]
    BY <2>1, <2>2, <2>4
  <2>6. QED
    BY <1>4, <2>5 DEF Send
<1>5. ASSUME NEW c \in Clients, Break(c) PROVE Types'
  <2>1. stream' \in [Clients -> {"open", "closed", "broken"}]
    BY <1>5 DEF Break
  <2>2. inbox' \in [Clients -> Seq(Commands)] /\ torn' \in [Clients -> Seq(Commands)]
    <3>1. \A command \in Commands : <<command>> \in Seq(Commands)
      OBVIOUS
    <3>2. QED
      BY <1>5, <3>1, EmptySeq DEF Break
  <2>3. QED
    BY <1>5, <2>1, <2>2 DEF Break, history
<1>6. ASSUME NEW c \in Clients, OnAccept(c) \/ OnReadClosed(c) \/ OnWriteError(c) PROVE Types'
  BY <1>6 DEF OnAccept, OnReadClosed, OnWriteError, Goto, peer, history
<1>7. ASSUME NEW c \in Clients, OnRead(c) PROVE Types'
  <2>1. Head(inbox[c]) \in Commands /\ Tail(inbox[c]) \in Seq(Commands)
    BY <1>7, HeadTailProperties DEF OnRead
  <2>2. <<Text(Head(inbox[c]))>> \in Seq(Part)
    BY <2>1, PartTypes
  <2>3. fetching' \in Clients \cup {Nobody} /\ buffer' \in [Clients -> Seq(Part)]
    BY <1>7, <2>2, RespondTypes DEF OnRead
  <2>4. QED
    BY <1>7, <2>1, <2>3 DEF OnRead, Goto, history
<1>8. ASSUME NEW c \in Clients, OnReadError(c) PROVE Types'
  <2>1. (IF torn[c] = <<>> THEN <<>> ELSE <<Text(torn[c][1])>>) \in Seq(Part)
    <3>1. torn[c] # <<>> => torn[c][1] \in Commands
      BY EmptySeq, ElementOfSeq
    <3>2. QED
      BY <3>1, PartTypes
  <2>2. fetching' \in Clients \cup {Nobody} /\ buffer' \in [Clients -> Seq(Part)]
    BY <1>8, <2>1, RespondTypes DEF OnReadError
  <2>3. QED
    BY <1>8, <2>2 DEF OnReadError, Goto, peer, history
<1>9. ASSUME NEW c \in Clients, Fetched(c) PROVE Types'
  <2>1. Append(buffer[c], Stats(traffic)) \in Seq(Part)
    <3>1. Stats(traffic) \in Part
      BY BoundsAssumption, PartTypes
    <3>2. QED
      BY <3>1, AppendProperties
  <2>2. QED
    BY <1>9, <2>1 DEF Fetched, peer, history
<1>10. ASSUME NEW c \in Clients, OnWrite(c) PROVE Types'
  <2>1. Append(answers[c], buffer[c]) \in Seq(Seq(Part))
    BY AppendProperties
  <2>2. <<>> \in Seq(Part)
    OBVIOUS
  <2>3. answers' \in [Clients -> Seq(Seq(Part))] /\ buffer' \in [Clients -> Seq(Part)]
    BY <1>10, <2>1, <2>2 DEF OnWrite
  <2>4. QED
    BY <1>10, <2>3 DEF OnWrite, Goto, peer
<1>11. CASE UNCHANGED vars
  BY <1>11 DEF vars, peer, history
<1>12. QED
  BY <1>1, <1>2, <1>3, <1>4, <1>5, <1>6, <1>7, <1>8, <1>9, <1>10, <1>11
     DEF Next, Client, Handlers

LEMMA IInvInit == Init => IInv
<1> SUFFICES ASSUME Init PROVE IInv
  OBVIOUS
<1>1. Types
  BY TypesInit
<1>2. ASSUME NEW c \in Clients PROVE Book(c)
  <2>1. /\ session[c] = "none" /\ inbox[c] = <<>> /\ buffer[c] = <<>>
        /\ asked[c] = <<>> /\ answers[c] = <<>> /\ fetching # c
    BY NobodyAssumption DEF Init, Everyone
  <2>2. Len(inbox[c]) = 0 /\ Len(asked[c]) = 0 /\ Len(answers[c]) = 0 /\ Taken(c) = 0
    BY <2>1 DEF Taken
  <2>3. QED
    BY <2>1, <2>2 DEF Book, BufferBook, AskedBook, InboxBook, AnswersBook, AnswerBook
<1>3. QED
  BY <1>1, <1>2 DEF IInv

(* The actions that leave the books of everyone alone.                     *)
LEMMA OthersKeepBooks ==
  ASSUME IInv, Types', Listen \/ ListenFails \/ FetchThrows \/ TrafficFlows \/ UNCHANGED vars,
         NEW d \in Clients
  PROVE  Book(d)'
<1>1. traffic' >= traffic
  BY BoundsAssumption DEF IInv, Types, Listen, ListenFails, FetchThrows, TrafficFlows, vars
<1>2. /\ session'[d] = session[d] /\ stream'[d] = stream[d] /\ inbox'[d] = inbox[d]
      /\ buffer'[d] = buffer[d] /\ asked'[d] = asked[d] /\ answers'[d] = answers[d]
  BY DEF Listen, ListenFails, FetchThrows, TrafficFlows, vars, peer, history
<1>3. /\ server = "dead" => server' = "dead"
      /\ (fetching' = d <=> fetching = d) \/ (server' = "dead" /\ fetching' # d)
  <2>1. CASE FetchThrows
    BY <2>1, NobodyAssumption DEF FetchThrows
  <2>2. CASE Listen \/ ListenFails \/ TrafficFlows \/ UNCHANGED vars
    BY <2>2 DEF Listen, ListenFails, TrafficFlows, vars
  <2>3. QED
    BY <2>1, <2>2
<1>4. QED
  BY <1>1, <1>2, <1>3, Frame DEF IInv

(* What is done for one client leaves the books of the others alone.       *)
LEMMA OtherClients ==
  ASSUME IInv, Types', NEW c \in Clients, Client(c) \/ Handlers(c) \/ Fetched(c),
         NEW d \in Clients, d # c
  PROVE  Book(d)'
<1> USE DEF IInv, Types
<1>1. traffic' >= traffic /\ server' = server
  <2>1. traffic' = traffic /\ server' = server
    BY DEF Client, Handlers, ListenerAccepts, Send, Leave, Break, OnAccept, OnRead, OnReadClosed,
           OnReadError, Fetched, OnWrite, OnWriteError
  <2>2. QED
    BY <2>1, BoundsAssumption
<1>2. session'[d] = session[d] /\ stream'[d] = stream[d] /\ inbox'[d] = inbox[d]
  BY DEF Client, Handlers, ListenerAccepts, Send, Leave, Break, OnAccept, OnRead, OnReadClosed,
         OnReadError, Fetched, OnWrite, OnWriteError, Goto, peer
<1>3. asked'[d] = asked[d] /\ answers'[d] = answers[d]
  BY DEF Client, Handlers, ListenerAccepts, Send, Leave, Break, OnAccept, OnRead, OnReadClosed,
         OnReadError, Fetched, OnWrite, OnWriteError, history
<1>4. buffer'[d] = buffer[d] /\ (fetching' = d <=> fetching = d)
  <2>1. CASE OnRead(c) \/ OnReadError(c)
    <3>1. fetching = Nobody /\ fetching' \in {Nobody, c} /\ buffer'[d] = buffer[d]
      BY <2>1 DEF OnRead, OnReadError, Idle, Respond
    <3>2. QED
      BY <3>1, NobodyAssumption
  <2>2. CASE Fetched(c)
    BY <2>2, NobodyAssumption DEF Fetched
  <2>3. CASE OnAccept(c) \/ OnReadClosed(c) \/ OnWrite(c) \/ OnWriteError(c)
    BY <2>3 DEF OnAccept, OnReadClosed, OnWrite, OnWriteError
  <2>4. CASE Client(c)
    BY <2>4 DEF Client, ListenerAccepts, Send, Leave, Break
  <2>5. QED
    BY <2>1, <2>2, <2>3, <2>4 DEF Handlers
<1>5. QED
  BY <1>1, <1>2, <1>3, <1>4, Frame

(* The client's own books, first for actions that neither take a message   *)
(* nor give an answer.                                                     *)
LEMMA OwnBookOfClient ==
  ASSUME IInv, Types', NEW c \in Clients, Client(c)
  PROVE  Book(c)'
<1> USE DEF IInv
<1>1. /\ asked[c] \in Seq([command : Commands, at : Nat]) /\ answers[c] \in Seq(Seq(Part))
      /\ inbox[c] \in Seq(Commands) /\ traffic \in Nat /\ fetching \in Clients \cup {Nobody}
  <2>1. traffic \in Nat
    BY BoundsAssumption DEF Types
  <2>2. QED
    BY <2>1 DEF Types
<1>2. Book(c)
  OBVIOUS
<1>3. CASE ListenerAccepts(c)
  <2>1. /\ session[c] = "none" /\ session'[c] = "handshake" /\ fetching = Nobody
        /\ UNCHANGED <<server, fetching, stream, inbox, buffer, traffic, asked, answers>>
    BY <1>3 DEF ListenerAccepts, Goto, Idle, peer, history, Types
  <2>2. Taken(c)' = Taken(c) /\ (Kept(c)' <=> Kept(c))
    BY <2>1 DEF Taken, Kept
  <2>3. AnswersBook(c)'
    BY <1>2, <2>1 DEF Book, AnswersBook, IsAnswer
  <2>4. QED
    BY <1>2, <2>1, <2>2, <2>3 DEF Book, BufferBook, AskedBook, InboxBook, AnswerBook
<1>4. CASE Leave(c) \/ Break(c)
  <2>1. /\ UNCHANGED <<server, fetching, session, buffer, traffic, asked, answers>>
        /\ \/ inbox'[c] = inbox[c] /\ stream[c] # "broken"
           \/ inbox'[c] = <<>> /\ stream'[c] = "broken"
    BY <1>4 DEF Leave, Break, InUse, history, Types
  <2>2. Taken(c)' = Taken(c) /\ (Kept(c)' => Kept(c) /\ inbox'[c] = inbox[c])
    BY <2>1 DEF Taken, Kept
  <2>3. AnswersBook(c)' /\ AnswerBook(c)'
    BY <1>2, <2>1, <2>2 DEF Book, AnswersBook, AnswerBook, IsAnswer
  <2>4. InboxBook(c)'
    BY <1>2, <2>1, <2>2 DEF Book, InboxBook
  <2>5. QED
    BY <1>2, <2>1, <2>2, <2>3, <2>4 DEF Book, BufferBook, AskedBook
<1>5. CASE Send(c)
  <2>1. PICK command \in Commands :
          /\ inbox' = [inbox EXCEPT ![c] = Append(@, command)]
          /\ asked' = [asked EXCEPT ![c] = Append(@, [command |-> command, at |-> traffic])]
    BY <1>5 DEF Send
  <2> DEFINE message == [command |-> command, at |-> traffic]
  <2>2. /\ UNCHANGED <<server, fetching, session, stream, buffer, traffic, answers>>
        /\ session[c] \in {"reading", "writing"} /\ stream[c] = "open"
        /\ inbox'[c] = Append(inbox[c], command) /\ asked'[c] = Append(asked[c], message)
    BY <1>5, <2>1 DEF Send, InUse, Types
  <2>3. message \in [command : Commands, at : Nat]
    BY <1>1
  <2>4. /\ Len(asked[c]) \in Nat /\ Len(asked'[c]) = Len(asked[c]) + 1
        /\ asked'[c][Len(asked[c]) + 1] = message
        /\ \A i \in 1..Len(asked[c]) : asked'[c][i] = asked[c][i]
    BY <1>1, <2>2, <2>3, AppendProperties
  <2>5. /\ Len(inbox[c]) \in Nat /\ Len(inbox'[c]) = Len(inbox[c]) + 1
        /\ inbox'[c][Len(inbox[c]) + 1] = command
        /\ \A i \in 1..Len(inbox[c]) : inbox'[c][i] = inbox[c][i]
    BY <1>1, <2>2, AppendProperties
  <2>6. /\ Taken(c)' = Taken(c) /\ Taken(c) \in Nat /\ Len(answers[c]) \in Nat
        /\ Len(answers[c]) <= Len(asked[c]) /\ Taken(c) <= Len(asked[c])
        /\ session[c] = "writing" => Taken(c) \in 1..Len(asked[c])
    BY <1>1, <1>2, <2>2, <2>4 DEF Taken, Book, AskedBook
  <2>7. AskedBook(c)'
    <3>1. ASSUME NEW i \in 1..(Len(asked[c]) + 1) PROVE asked'[c][i].at <= traffic
      <4>1. CASE i = Len(asked[c]) + 1
        BY <1>1, <2>4, <4>1
      <4>2. CASE i \in 1..Len(asked[c])
        BY <1>2, <2>4, <4>2 DEF Book, AskedBook
      <4>3. QED
        BY <2>4, <4>1, <4>2
    <3>2. QED
      BY <2>2, <2>4, <2>6, <3>1 DEF AskedBook
  <2>8. InboxBook(c)'
    <3>1. /\ Taken(c) + Len(inbox[c]) = Len(asked[c])
          /\ \A i \in 1..Len(inbox[c]) : inbox[c][i] = asked[c][Taken(c) + i].command
      BY <1>2, <2>2 DEF Book, InboxBook, Kept
    <3>2. ASSUME NEW i \in 1..(Len(inbox[c]) + 1)
          PROVE  inbox'[c][i] = asked'[c][Taken(c) + i].command
      <4>1. CASE i = Len(inbox[c]) + 1
        <5>1. \A a, b, n \in Nat : a + b = n => a + (b + 1) = n + 1
          OBVIOUS
        <5>2. Taken(c) \in Nat /\ Len(inbox[c]) \in Nat /\ Len(asked[c]) \in Nat
          BY <2>4, <2>5, <2>6
        <5>3. Taken(c) + i = Len(asked[c]) + 1
          BY <3>1, <4>1, <5>1, <5>2
        <5>4. asked'[c][Taken(c) + i] = message
          BY <2>4, <5>3
        <5>5. message.command = command
          OBVIOUS
        <5>6. inbox'[c][i] = command
          BY <2>5, <4>1
        <5>7. QED
          BY <5>4, <5>5, <5>6
      <4>2. CASE i \in 1..Len(inbox[c])
        <5>1. Taken(c) + i \in 1..Len(asked[c])
          BY <2>4, <2>5, <2>6, <3>1, <4>2
        <5>2. QED
          BY <2>4, <2>5, <3>1, <4>2, <5>1
      <4>3. QED
        BY <2>5, <4>1, <4>2
    <3>3. Taken(c)' + Len(inbox'[c]) = Len(asked'[c])
      <4>1. Taken(c)' = Taken(c) /\ Len(inbox'[c]) = Len(inbox[c]) + 1 /\ Len(asked'[c]) = Len(asked[c]) + 1
        BY <2>4, <2>5, <2>6
      <4>2. Taken(c) + (Len(inbox[c]) + 1) = Len(asked[c]) + 1
        <5>1. \A a, b, n \in Nat : a + b = n => a + (b + 1) = n + 1
          OBVIOUS
        <5>2. Taken(c) \in Nat /\ Len(inbox[c]) \in Nat /\ Len(asked[c]) \in Nat
          BY <2>4, <2>5, <2>6
        <5>3. QED
          BY <3>1, <5>1, <5>2
      <4>3. QED
        BY <4>1, <4>2
    <3>4. QED
      BY <2>5, <2>6, <3>2, <3>3 DEF InboxBook
  <2>9. AnswersBook(c)'
    <3>1. ASSUME NEW i \in 1..Len(answers[c]) PROVE IsAnswer(answers[c][i], asked'[c][i])
      <4>1. i \in 1..Len(asked[c])
        BY <2>4, <2>6
      <4>2. QED
        BY <1>2, <2>4, <4>1 DEF Book, AnswersBook
    <3>2. QED
      BY <2>2, <3>1 DEF AnswersBook, IsAnswer
  <2>10. AnswerBook(c)'
    BY <1>2, <2>2, <2>4, <2>6 DEF Book, AnswerBook, IsAnswer
  <2>11. BufferBook(c)'
    BY <1>2, <2>2 DEF Book, BufferBook
  <2>12. QED
    BY <2>7, <2>8, <2>9, <2>10, <2>11 DEF Book
<1>6. QED
  BY <1>3, <1>4, <1>5 DEF Client

(* A message is taken from the inbox, and answered, now or when ifstat has *)
(* ended.                                                                  *)
LEMMA OwnBookOfRead ==
  ASSUME IInv, Types', NEW c \in Clients, OnRead(c)
  PROVE  Book(c)'
<1> DEFINE command == Head(inbox[c])
           k == Len(answers[c]) + 1
<1>1. /\ asked[c] \in Seq([command : Commands, at : Nat]) /\ answers[c] \in Seq(Seq(Part))
      /\ inbox[c] \in Seq(Commands)
  BY DEF IInv, Types
<1>2. Book(c) /\ traffic \in Nat
  <2>1. traffic \in Nat
    BY BoundsAssumption DEF IInv, Types
  <2>2. QED
    BY <2>1 DEF IInv
<1>3. /\ session[c] = "reading" /\ session'[c] = "writing" /\ inbox[c] # <<>>
      /\ fetching = Nobody /\ fetching # c /\ inbox'[c] = Tail(inbox[c])
      /\ UNCHANGED <<server, stream, traffic, asked, answers>>
  BY NobodyAssumption DEF OnRead, Idle, Goto, history, IInv, Types
<1>4. Taken(c) = Len(answers[c]) /\ Taken(c)' = k /\ Kept(c) /\ Len(answers[c]) \in Nat
  BY <1>1, <1>3 DEF Taken, Kept
<1>5. /\ command \in Commands /\ Len(inbox[c]) \in Nat \ {0} /\ command = inbox[c][1]
      /\ Len(inbox'[c]) = Len(inbox[c]) - 1
      /\ \A i \in 1..Len(inbox'[c]) : inbox'[c][i] = inbox[c][i + 1]
  <2>1. Len(inbox[c]) \in Nat \ {0} /\ command = inbox[c][1]
    BY <1>1, <1>3
  <2>2. QED
    BY <1>1, <1>3, <2>1, HeadTailProperties
<1>6. /\ Len(answers[c]) + Len(inbox[c]) = Len(asked[c])
      /\ \A i \in 1..Len(inbox[c]) : inbox[c][i] = asked[c][Len(answers[c]) + i].command
  BY <1>2, <1>4 DEF Book, InboxBook
<1>7. k \in 1..Len(asked[c]) /\ asked[c][k].command = command
  <2>1. \A n, l, a \in Nat : l # 0 /\ n + l = a => n + 1 \in 1..a /\ 1 \in 1..l
    OBVIOUS
  <2>2. Len(asked[c]) \in Nat
    BY <1>1
  <2>3. k \in 1..Len(asked[c]) /\ 1 \in 1..Len(inbox[c])
    BY <1>4, <1>5, <1>6, <2>1, <2>2
  <2>4. QED
    BY <1>5, <1>6, <2>3
<1>8. buffer[c] = <<>> /\ buffer[c] \o <<Text(command)>> = <<Text(command)>>
  <2>1. buffer[c] = <<>>
    BY <1>2, <1>3 DEF Book, BufferBook
  <2>2. <<Text(command)>> \in Seq(Part)
    BY <1>5, PartTypes
  <2>3. QED
    BY <2>1, <2>2, ConcatEmptySeq
<1>9. <<Text(command)>> = <<Text("{netstat}")>> <=> command = "{netstat}"
  BY DEF Text
<1>10. IF command = "{netstat}"
       THEN fetching' = c /\ buffer'[c] = <<>>
       ELSE buffer'[c] = <<Text(command), UnknownCommand>> /\ fetching' = fetching
  <2>1. Respond(c, <<Text(command)>>)
    BY DEF OnRead
  <2>2. Append(<<Text(command)>>, UnknownCommand) = <<Text(command), UnknownCommand>>
    BY <1>5, PartTypes, AppendToOne
  <2>3. buffer \in [Clients -> Seq(Part)]
    BY DEF IInv, Types
  <2>4. CASE command = "{netstat}"
    BY <1>8, <1>9, <2>1, <2>3, <2>4 DEF Respond
  <2>5. CASE command # "{netstat}"
    BY <1>8, <1>9, <2>1, <2>2, <2>3, <2>5 DEF Respond
  <2>6. QED
    BY <2>4, <2>5
<1>11. BufferBook(c)'
  BY <1>3, <1>10 DEF BufferBook
<1>12. AskedBook(c)'
  BY <1>2, <1>3, <1>4, <1>7 DEF Book, AskedBook
<1>13. InboxBook(c)'
  <2>1. k + Len(inbox'[c]) = Len(asked[c])
    <3>1. Len(answers[c]) \in Nat /\ Len(inbox[c]) \in Nat \ {0} /\ Len(asked[c]) \in Nat
      BY <1>1, <1>4, <1>5
    <3>2. (Len(answers[c]) + 1) + (Len(inbox[c]) - 1) = Len(asked[c])
      <4>1. Len(answers[c]) + Len(inbox[c]) = Len(asked[c])
        BY <1>6
      <4>2. \A a, l, n \in Int : a + l = n => (a + 1) + (l - 1) = n
        OBVIOUS
      <4>3. /\ Len(answers[c]) \in Int /\ Len(inbox[c]) \in Int /\ Len(asked[c]) \in Int
        BY <3>1
      <4>4. QED
        BY <4>1, <4>2, <4>3
    <3>3. QED
      BY <1>5, <3>2
  <2>2. ASSUME NEW i \in 1..Len(inbox'[c]) PROVE inbox'[c][i] = asked[c][k + i].command
    <3>1. i + 1 \in 1..Len(inbox[c]) /\ Len(answers[c]) + (i + 1) = k + i
      BY <1>4, <1>5, Shift
    <3>2. QED
      BY <1>5, <1>6, <3>1
  <2>3. QED
    BY <1>3, <1>4, <2>1, <2>2 DEF InboxBook
<1>14. AnswersBook(c)'
  BY <1>2, <1>3 DEF Book, AnswersBook, IsAnswer
<1>15. AnswerBook(c)'
  BY <1>3, <1>4, <1>7, <1>10 DEF AnswerBook, IsAnswer
<1>16. QED
  BY <1>11, <1>12, <1>13, <1>14, <1>15 DEF Book

(* The answer is given, and counts as one.                                 *)
LEMMA OwnBookOfWrite ==
  ASSUME IInv, Types', NEW c \in Clients, OnWrite(c)
  PROVE  Book(c)'
<1> DEFINE k == Len(answers[c]) + 1
<1>1. /\ asked[c] \in Seq([command : Commands, at : Nat]) /\ answers[c] \in Seq(Seq(Part))
      /\ buffer[c] \in Seq(Part)
  BY DEF IInv, Types
<1>2. Book(c)
  BY DEF IInv
<1>3. /\ session[c] = "writing" /\ session'[c] = "reading" /\ buffer'[c] = <<>>
      /\ fetching # c /\ server = "serving" /\ answers'[c] = Append(answers[c], buffer[c])
      /\ UNCHANGED <<server, fetching, stream, inbox, traffic, asked>>
  BY NobodyAssumption DEF OnWrite, Idle, Goto, peer, IInv, Types
<1>4. /\ Len(answers[c]) \in Nat /\ Len(answers'[c]) = k /\ answers'[c][k] = buffer[c]
      /\ \A i \in 1..Len(answers[c]) : answers'[c][i] = answers[c][i]
  BY <1>1, <1>3, AppendProperties
<1>5. Taken(c) = k /\ Taken(c)' = Taken(c) /\ (Kept(c)' <=> Kept(c))
  BY <1>3, <1>4 DEF Taken, Kept
<1>6. BufferBook(c)' /\ AnswerBook(c)'
  BY <1>3 DEF BufferBook, AnswerBook
<1>7. AskedBook(c)' /\ InboxBook(c)'
  BY <1>2, <1>3, <1>5 DEF Book, AskedBook, InboxBook
<1>8. AnswersBook(c)'
  <2>1. IsAnswer(buffer[c], asked[c][k])
    BY <1>2, <1>3, <1>5 DEF Book, AnswerBook
  <2>2. ASSUME NEW i \in 1..k PROVE IsAnswer(answers'[c][i], asked[c][i])
    <3>1. CASE i = k
      BY <1>4, <2>1, <3>1
    <3>2. CASE i \in 1..Len(answers[c])
      BY <1>2, <1>4, <3>2 DEF Book, AnswersBook
    <3>3. QED
      BY <1>4, <3>1, <3>2
  <2>3. QED
    BY <1>3, <1>4, <2>2 DEF AnswersBook, IsAnswer
<1>9. QED
  BY <1>6, <1>7, <1>8 DEF Book

LEMMA OwnBookOfFetched ==
  ASSUME IInv, Types', NEW c \in Clients, Fetched(c)
  PROVE  Book(c)'
<1>1. /\ asked[c] \in Seq([command : Commands, at : Nat]) /\ answers[c] \in Seq(Seq(Part))
  BY DEF IInv, Types
<1>2. Book(c) /\ traffic \in Nat
  <2>1. traffic \in Nat
    BY BoundsAssumption DEF IInv, Types
  <2>2. QED
    BY <2>1 DEF IInv
<1>3. /\ fetching = c /\ fetching' = Nobody /\ fetching' # c /\ server = "serving"
      /\ buffer'[c] = Append(buffer[c], Stats(traffic))
      /\ UNCHANGED <<server, session, stream, inbox, traffic, asked, answers>>
  BY NobodyAssumption DEF Fetched, peer, history, IInv, Types
<1>4. buffer'[c] = <<Stats(traffic)>> /\ session[c] \in {"writing", "failed"}
  <2>1. buffer[c] = <<>> /\ session[c] \in {"writing", "failed"}
    BY <1>2, <1>3 DEF Book, BufferBook
  <2>2. Append(<<>>, Stats(traffic)) = <<Stats(traffic)>>
    OBVIOUS
  <2>3. QED
    BY <1>3, <2>1, <2>2
<1>5. Taken(c)' = Taken(c) /\ (Kept(c)' <=> Kept(c))
  BY <1>3 DEF Taken, Kept
<1>6. BufferBook(c)' /\ AskedBook(c)' /\ InboxBook(c)'
  BY <1>2, <1>3, <1>4, <1>5 DEF Book, BufferBook, AskedBook, InboxBook
<1>7. AnswersBook(c)'
  BY <1>2, <1>3 DEF Book, AnswersBook, IsAnswer
<1>8. AnswerBook(c)'
  <2> SUFFICES ASSUME session[c] = "writing" PROVE IsAnswer(<<Stats(traffic)>>, asked[c][Taken(c)])
    BY <1>3, <1>4, <1>5 DEF AnswerBook, IsAnswer
  <2>1. asked[c][Taken(c)].command = "{netstat}"
    BY <1>2, <1>3 DEF Book, AnswerBook
  <2>2. Taken(c) \in 1..Len(asked[c])
    BY <1>1, <1>2 DEF Book, AskedBook, Taken
  <2>3. asked[c][Taken(c)].at \in Nat /\ asked[c][Taken(c)].at <= traffic
    <3>1. asked[c][Taken(c)] \in [command : Commands, at : Nat]
      BY <1>1, <2>2, ElementOfSeq
    <3>2. QED
      BY <1>2, <2>2, <3>1 DEF Book, AskedBook
  <2>4. traffic \in asked[c][Taken(c)].at..traffic
    BY <1>2, <2>3
  <2>5. QED
    BY <2>1, <2>4 DEF IsAnswer
<1>9. QED
  BY <1>6, <1>7, <1>8 DEF Book

LEMMA OwnBookOfOthers ==
  ASSUME IInv, Types', NEW c \in Clients,
         OnAccept(c) \/ OnReadClosed(c) \/ OnReadError(c) \/ OnWriteError(c)
  PROVE  Book(c)'
<1>1. /\ asked[c] \in Seq([command : Commands, at : Nat]) /\ answers[c] \in Seq(Seq(Part))
  BY DEF IInv, Types
<1>2. Book(c)
  BY DEF IInv
<1>3. /\ fetching = Nobody /\ fetching # c /\ session'[c] # "writing"
      /\ UNCHANGED <<server, stream, inbox, traffic, asked, answers>>
  BY NobodyAssumption
     DEF OnAccept, OnReadClosed, OnReadError, OnWriteError, Idle, Goto, peer, history, IInv, Types
<1>4. Taken(c)' = Len(answers[c]) /\ Taken(c)' <= Len(asked[c])
  <2>1. Len(answers[c]) \in Nat /\ Len(asked[c]) \in Nat
    BY <1>1
  <2>2. QED
    BY <1>2, <1>3, <2>1 DEF Taken, Book, AskedBook
<1>5. AskedBook(c)' /\ AnswerBook(c)'
  BY <1>2, <1>3, <1>4 DEF Book, AskedBook, AnswerBook
<1>6. AnswersBook(c)'
  BY <1>2, <1>3 DEF Book, AnswersBook, IsAnswer
<1>7. BufferBook(c)'
  <2>1. CASE OnReadError(c)
    BY <1>3, <2>1 DEF OnReadError, Respond, Goto, BufferBook, IInv, Types
  <2>2. CASE OnAccept(c) \/ OnReadClosed(c) \/ OnWriteError(c)
    BY <1>2, <1>3, <2>2
       DEF OnAccept, OnReadClosed, OnWriteError, Goto, Book, BufferBook, IInv, Types
  <2>3. QED
    BY <2>1, <2>2
<1>8. InboxBook(c)'
  <2>1. CASE OnAccept(c) /\ session'[c] = "reading"
    BY <1>2, <1>3, <2>1 DEF OnAccept, Book, InboxBook, Kept, Taken
  <2>2. CASE OnReadError(c)
    BY <1>3, <2>2 DEF OnReadError, InboxBook, Kept
  <2>3. CASE (OnAccept(c) /\ session'[c] # "reading") \/ OnReadClosed(c) \/ OnWriteError(c)
    BY <2>3 DEF OnAccept, OnReadClosed, OnWriteError, Goto, InboxBook, Kept, IInv, Types
  <2>4. QED
    BY <2>1, <2>2, <2>3
<1>9. QED
  BY <1>5, <1>6, <1>7, <1>8 DEF Book

LEMMA IInvInductive == IInv /\ [Next]_vars => IInv'
<1> SUFFICES ASSUME IInv, [Next]_vars PROVE IInv'
  OBVIOUS
<1>1. Types'
  BY TypesInductive DEF IInv
<1>2. ASSUME NEW d \in Clients PROVE Book(d)'
  <2>1. CASE Listen \/ ListenFails \/ FetchThrows \/ TrafficFlows \/ UNCHANGED vars
    BY <1>1, <2>1, OthersKeepBooks
  <2>2. ASSUME NEW c \in Clients, Client(c) \/ Handlers(c) \/ Fetched(c), c # d PROVE Book(d)'
    BY <1>1, <2>2, OtherClients
  <2>3. CASE Client(d)
    BY <1>1, <2>3, OwnBookOfClient
  <2>4. CASE Handlers(d)
    BY <1>1, <2>4, OwnBookOfRead, OwnBookOfWrite, OwnBookOfOthers DEF Handlers
  <2>5. CASE Fetched(d)
    BY <1>1, <2>5, OwnBookOfFetched
  <2>6. QED
    BY <2>1, <2>2, <2>3, <2>4, <2>5 DEF Next
<1>3. QED
  BY <1>1, <1>2 DEF IInv

LEMMA IInvHolds == Spec => []IInv
BY IInvInit, IInvInductive, PTL DEF Spec

(* The thread of the task runner waits only for a session that it has      *)
(* still to answer, and a session that reads has an empty buffer.          *)
THEOREM TypeCorrect == Spec => []TypeOK
<1>1. IInv => TypeOK
  BY NobodyAssumption DEF IInv, Types, TypeOK, Book, BufferBook
<1>2. QED
  BY <1>1, IInvHolds, PTL

(* on_read and fetchNetStats answer each message of each dashboard in its  *)
(* turn, from itself alone, whatever the other sessions do.                *)
THEOREM AnswersAreFit == Spec => []AnswersFitMessages
<1>1. IInv => AnswersFitMessages
  <2> SUFFICES ASSUME IInv, NEW c \in Clients
               PROVE  /\ Len(answers[c]) <= Len(asked[c])
                      /\ \A i \in 1..Len(answers[c]) : IsAnswer(answers[c][i], asked[c][i])
    BY DEF AnswersFitMessages
  <2>1. Len(answers[c]) \in Nat /\ Len(asked[c]) \in Nat
    BY DEF IInv, Types
  <2>2. Taken(c) \in {Len(answers[c]), Len(answers[c]) + 1} /\ Taken(c) <= Len(asked[c])
    BY DEF IInv, Book, AskedBook, Taken
  <2>3. QED
    BY <2>1, <2>2 DEF IInv, Book, AnswersBook
<1>2. QED
  BY <1>1, IInvHolds, PTL
=============================================================================
