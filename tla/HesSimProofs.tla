---------------------------- MODULE HesSimProofs ----------------------------
(***************************************************************************)
(* Theorems about the two modules of HESsim.cpp, for any clients, messages *)
(* and meters.  HesConfig, the settings and their websocket server: echoes *)
(* are a client's own messages in order, and passes use only settings that *)
(* were sent.  HeadEnd, the registrations and the passes: no interleaving  *)
(* of registrations loses one, and the server survives every registration  *)
(* that is complete.  The names of HeadEnd's specification carry its name; *)
(* Init, Next, Spec and TypeOK are HesConfig's.                            *)
(***************************************************************************)
EXTENDS HesConfig, HeadEnd, SequenceTheorems, TLAPS

-----------------------------------------------------------------------------
(* HesConfig.                                                              *)

(* The books of one client, stated of values: the session's place s, the   *)
(* stream's state t, and the sequences in the inbox, in the buffer, sent   *)
(* and echoed.                                                             *)

(* A session that does not write has an empty buffer, and one that writes  *)
(* has one message in it, which comes after those it has echoed.           *)
BufferIsNext(s, buf, snt, ech) ==
  /\ s \in {"none", "handshake", "reading"} => Len(buf) = 0
  /\ s = "writing" =>
       /\ Len(buf) = 1 /\ Len(ech) + 1 <= Len(snt)
       /\ buf[1] = snt[Len(ech) + 1]

(* As long as nothing was lost, a message is echoed, in the buffer or in   *)
(* the inbox.                                                              *)
NothingMissing(s, t, inb, buf, snt, ech) ==
  (t # "broken" \/ Len(inb) # 0) /\ s \notin {"failed", "ended"} =>
    Len(snt) = Len(ech) + Len(buf) + Len(inb)

(* The inbox holds the last messages that were sent.                       *)
InboxIsRest(inb, snt) ==
  /\ Len(inb) <= Len(snt)
  /\ \A j \in 1..Len(inb) : inb[j] = snt[Len(snt) - Len(inb) + j]

(* The property, for one client.                                           *)
EchoesOf(snt, ech) ==
  /\ Len(ech) <= Len(snt)
  /\ \A i \in 1..Len(ech) : ech[i] = <<snt[i]>>

Books(s, t, inb, buf, snt, ech) ==
  /\ BufferIsNext(s, buf, snt, ech)
  /\ NothingMissing(s, t, inb, buf, snt, ech)
  /\ InboxIsRest(inb, snt)
  /\ EchoesOf(snt, ech)

LEMMA BooksEmpty == Books("none", "open", <<>>, <<>>, <<>>, <<>>)
  BY EmptySeq DEF Books, BufferIsNext, NothingMissing, InboxIsRest, EchoesOf

(* A message is sent: it is the last in the inbox.                         *)
LEMMA BooksSend ==
  ASSUME NEW S, NEW m \in S, NEW inb \in Seq(S), NEW snt \in Seq(S), NEW buf \in Seq(S),
         NEW ech \in Seq(Seq(S)), NEW s \in {"reading", "writing"}, NEW t, t # "broken",
         Books(s, t, inb, buf, snt, ech)
  PROVE  Books(s, t, Append(inb, m), buf, Append(snt, m), ech)
<1>. DEFINE inb1 == Append(inb, m)  snt1 == Append(snt, m)
<1>1. /\ Len(inb1) = Len(inb) + 1 /\ Len(snt1) = Len(snt) + 1
      /\ inb1[Len(inb) + 1] = m /\ snt1[Len(snt) + 1] = m
      /\ \A j \in 1..Len(inb) : inb1[j] = inb[j]
      /\ \A j \in 1..Len(snt) : snt1[j] = snt[j]
  BY AppendProperties
<1>2. Len(inb) \in Nat /\ Len(snt) \in Nat /\ Len(ech) \in Nat /\ Len(buf) \in Nat
  BY LenProperties
<1>. HIDE DEF inb1, snt1
<1>3. BufferIsNext(s, buf, snt1, ech)
  BY <1>1, <1>2 DEF Books, BufferIsNext
<1>4. NothingMissing(s, t, inb1, buf, snt1, ech)
  <2>1. Len(snt) = Len(ech) + Len(buf) + Len(inb)
    BY DEF Books, NothingMissing
  <2>2. Len(snt1) = Len(ech) + Len(buf) + Len(inb1)
    BY <1>1, <1>2, <2>1
  <2>. QED
    BY <2>2 DEF NothingMissing
<1>5. InboxIsRest(inb1, snt1)
  <2>1. Len(inb) <= Len(snt)
    BY DEF Books, InboxIsRest
  <2>2. ASSUME NEW j \in 1..Len(inb) PROVE inb1[j] = snt1[Len(snt1) - Len(inb1) + j]
    <3>1. inb[j] = snt[Len(snt) - Len(inb) + j]
      BY DEF Books, InboxIsRest
    <3>2. /\ Len(snt) - Len(inb) + j \in 1..Len(snt)
          /\ Len(snt1) - Len(inb1) + j = Len(snt) - Len(inb) + j
      BY <1>1, <1>2, <2>1
    <3>. QED
      BY <3>1, <3>2, <1>1
  <2>3. ASSUME NEW j, j = Len(inb) + 1 PROVE inb1[j] = snt1[Len(snt1) - Len(inb1) + j]
    <3>1. Len(snt1) - Len(inb1) + j = Len(snt) + 1
      BY <1>1, <1>2, <2>1, <2>3
    <3>. QED
      BY <3>1, <1>1, <2>3
  <2>4. \A j \in 1..Len(inb1) : j \in 1..Len(inb) \/ j = Len(inb) + 1
    BY <1>1, <1>2
  <2>5. Len(inb1) <= Len(snt1)
    BY <1>1, <1>2, <2>1
  <2>. QED
    BY <2>2, <2>3, <2>4, <2>5 DEF InboxIsRest
<1>6. EchoesOf(snt1, ech)
  BY <1>1, <1>2 DEF Books, EchoesOf
<1>. QED
  BY <1>3, <1>4, <1>5, <1>6 DEF Books, inb1, snt1

(* A message is read: it is the one after those echoed.                    *)
LEMMA BooksRead ==
  ASSUME NEW S, NEW inb \in Seq(S), NEW snt \in Seq(S), NEW buf \in Seq(S),
         NEW ech \in Seq(Seq(S)), NEW t, inb # <<>>,
         Books("reading", t, inb, buf, snt, ech)
  PROVE  Books("writing", t, Tail(inb), Append(buf, Head(inb)), snt, ech)
<1>. DEFINE inb1 == Tail(inb)  buf1 == Append(buf, Head(inb))
<1>1. Len(inb) \in Nat /\ Len(snt) \in Nat /\ Len(ech) \in Nat /\ Len(inb) > 0
  BY LenProperties, EmptySeq
<1>2. /\ Head(inb) = inb[1] /\ Head(inb) \in S
      /\ Len(inb1) = Len(inb) - 1
      /\ \A j \in 1..Len(inb1) : inb1[j] = inb[j + 1]
  BY HeadTailProperties
<1>3. Len(buf) = 0
  BY DEF Books, BufferIsNext
<1>4. Len(buf1) = 1 /\ buf1[1] = inb[1]
  BY <1>2, <1>3, AppendProperties
<1>. HIDE DEF inb1, buf1
<1>5. Len(snt) = Len(ech) + Len(inb)
  BY <1>1, <1>3 DEF Books, NothingMissing
<1>6. inb[1] = snt[Len(ech) + 1]
  <2>1. Len(snt) - Len(inb) + 1 = Len(ech) + 1 /\ 1 \in 1..Len(inb)
    BY <1>1, <1>5
  <2>. QED
    BY <2>1 DEF Books, InboxIsRest
<1>7. BufferIsNext("writing", buf1, snt, ech)
  BY <1>1, <1>4, <1>5, <1>6 DEF BufferIsNext
<1>8. NothingMissing("writing", t, inb1, buf1, snt, ech)
  BY <1>1, <1>2, <1>4, <1>5 DEF NothingMissing
<1>9. InboxIsRest(inb1, snt)
  <2>1. ASSUME NEW j \in 1..Len(inb1) PROVE inb1[j] = snt[Len(snt) - Len(inb1) + j]
    <3>1. j + 1 \in 1..Len(inb) /\ inb1[j] = inb[j + 1]
      BY <1>1, <1>2
    <3>2. inb[j + 1] = snt[Len(snt) - Len(inb) + (j + 1)]
      BY <3>1 DEF Books, InboxIsRest
    <3>3. Len(snt) - Len(inb) + (j + 1) = Len(snt) - Len(inb1) + j
      BY <1>1, <1>2
    <3>. QED
      BY <3>1, <3>2, <3>3
  <2>. QED
    BY <1>1, <1>2, <1>5, <2>1 DEF InboxIsRest
<1>10. EchoesOf(snt, ech)
  BY DEF Books
<1>. QED
  BY <1>7, <1>8, <1>9, <1>10 DEF Books, inb1, buf1

(* A message is echoed.                                                    *)
LEMMA BooksWrite ==
  ASSUME NEW S, NEW inb \in Seq(S), NEW snt \in Seq(S), NEW buf \in Seq(S),
         NEW ech \in Seq(Seq(S)), NEW t,
         Books("writing", t, inb, buf, snt, ech)
  PROVE  Books("reading", t, inb, <<>>, snt, Append(ech, buf))
<1>. DEFINE ech1 == Append(ech, buf)
<1>1. Len(inb) \in Nat /\ Len(snt) \in Nat /\ Len(ech) \in Nat
  BY LenProperties
<1>2. /\ Len(ech1) = Len(ech) + 1 /\ ech1[Len(ech) + 1] = buf
      /\ \A i \in 1..Len(ech) : ech1[i] = ech[i]
  BY AppendProperties
<1>3. Len(buf) = 1 /\ Len(ech) + 1 <= Len(snt) /\ buf[1] = snt[Len(ech) + 1]
  BY DEF Books, BufferIsNext
<1>4. buf = <<snt[Len(ech) + 1]>>
  BY <1>3
<1>. HIDE DEF ech1
<1>5. BufferIsNext("reading", <<>>, snt, ech1)
  BY EmptySeq DEF BufferIsNext
<1>6. NothingMissing("reading", t, inb, <<>>, snt, ech1)
  BY <1>1, <1>2, <1>3, EmptySeq DEF Books, NothingMissing
<1>7. EchoesOf(snt, ech1)
  <2>1. ASSUME NEW i \in 1..Len(ech) PROVE ech1[i] = <<snt[i]>>
    BY <1>2 DEF Books, EchoesOf
  <2>2. \A i \in 1..Len(ech1) : i \in 1..Len(ech) \/ i = Len(ech) + 1
    BY <1>1, <1>2
  <2>. QED
    BY <1>1, <1>2, <1>3, <1>4, <2>1, <2>2 DEF EchoesOf
<1>. QED
  BY <1>5, <1>6, <1>7 DEF Books, ech1
-----------------------------------------------------------------------------
(* The inductive invariant behind the echoes.                              *)

BooksOf(c) == Books(session[c], stream[c], inbox[c], buffer[c], sent[c], echoed[c])

(* Only a broken connection leaves part of a message.                      *)
WholeUnlessBroken(c) == stream[c] # "broken" => session[c] # "failed" /\ torn[c] = <<>>

EchoInv == TypeOK /\ \A c \in Clients : BooksOf(c) /\ WholeUnlessBroken(c)

LEMMA EchoInit == Init => EchoInv
<1>. SUFFICES ASSUME Init PROVE EchoInv
  OBVIOUS
<1>. USE DEF Init, Everyone
<1>1. TypeOK
  BY EmptySeq, BoundsAssumption DEF TypeOK, Settings, Sizes, Routes, Reads
<1>2. ASSUME NEW c \in Clients PROVE BooksOf(c) /\ WholeUnlessBroken(c)
  BY BooksEmpty DEF BooksOf, WholeUnlessBroken
<1>. QED
  BY <1>1, <1>2 DEF EchoInv

(* A load leaves settings in HESConfig.                                    *)
LEMMA LoadedType ==
  ASSUME TypeOK, NEW text \in Seq(Messages)
  PROVE  Loaded(text) \in Settings
<1>1. CASE Len(text) # 1 \/ text[1].size = "none"
  BY <1>1 DEF Loaded, TypeOK
<1>2. CASE ~(Len(text) # 1 \/ text[1].size = "none")
  <2>1. text[1] \in Messages
    BY <1>2
  <2>2. text[1].size \in Sizes /\ text[1].route \in Routes \cup {"none"}
    BY <1>2, <2>1, MessagesAssumption
  <2>. QED
    BY <1>2, <2>2 DEF Loaded, TypeOK, Settings
<1>. QED
  BY <1>1, <1>2

(* A text of one message, and a text appended to an empty buffer.          *)
LEMMA OneText ==
  ASSUME NEW S, NEW m \in S
  PROVE  <<m>> \in Seq(S) /\ Len(<<m>>) <= 1
  OBVIOUS

LEMMA TextAppended ==
  ASSUME NEW S, NEW a \in Seq(S), NEW b \in Seq(S), Len(a) = 0, Len(b) <= 1
  PROVE  a \o b \in Seq(S) /\ Len(a \o b) <= 1
<1>1. Len(a \o b) = Len(a) + Len(b) /\ a \o b \in Seq(S)
  BY ConcatProperties
<1>. QED
  BY <1>1, LenProperties

(* Facts about sequences for the settings below.                           *)
LEMMA AppendStays ==
  ASSUME NEW S, NEW a \in Seq(S), NEW m \in S, NEW i \in 1..Len(a)
  PROVE  i \in 1..Len(Append(a, m)) /\ Append(a, m)[i] = a[i]
<1>1. Len(Append(a, m)) = Len(a) + 1 /\ \A j \in 1..Len(a) : Append(a, m)[j] = a[j]
  BY AppendProperties
<1>. QED
  BY <1>1, LenProperties

LEMMA OnlyOne ==
  ASSUME NEW S, NEW a \in Seq(S), NEW m \in S, Len(a) = 0
  PROVE  Append(a, m) \in Seq(S) /\ Append(a, m)[1] = m
<1>1. Append(a, m)[Len(a) + 1] = m /\ Append(a, m) \in Seq(S)
  BY AppendProperties
<1>. QED
  BY <1>1

LEMMA NothingInFront ==
  ASSUME NEW S, NEW a \in Seq(S), NEW b \in Seq(S), Len(a) = 0
  PROVE  a \o b = b
<1>1. a = <<>>
  BY EmptySeq
<1>. QED
  BY <1>1, ConcatEmptySeq

LEMMA SingleText ==
  ASSUME NEW S, NEW a \in Seq(S), Len(a) = 1
  PROVE  a = <<a[1]>> /\ a[1] \in S
<1>1. <<a[1]>> \in Seq(S) /\ Len(<<a[1]>>) = 1 /\ <<a[1]>>[1] = a[1]
  OBVIOUS
<1>. QED
  BY <1>1, SeqEqual

LEMMA FirstWasSent ==
  ASSUME NEW S, NEW inb \in Seq(S), NEW snt \in Seq(S), inb # <<>>, InboxIsRest(inb, snt)
  PROVE  \E i \in 1..Len(snt) : Head(inb) = snt[i]
<1>1. Len(inb) \in Nat /\ Len(snt) \in Nat /\ Len(inb) > 0
  BY LenProperties, EmptySeq
<1>2. Head(inb) = inb[1] /\ inb[1] = snt[Len(snt) - Len(inb) + 1]
  BY <1>1, HeadTailProperties DEF InboxIsRest
<1>3. Len(snt) - Len(inb) + 1 \in 1..Len(snt)
  BY <1>1 DEF InboxIsRest
<1>. QED
  BY <1>2, <1>3

(* What a step leaves alone for a client stays as it was.                  *)
LEMMA Untouched ==
  ASSUME NEW d \in Clients, BooksOf(d), WholeUnlessBroken(d),
         session'[d] = session[d], stream'[d] = stream[d], inbox'[d] = inbox[d],
         torn'[d] = torn[d], buffer'[d] = buffer[d], sent'[d] = sent[d],
         echoed'[d] = echoed[d]
  PROVE  BooksOf(d)' /\ WholeUnlessBroken(d)'
  BY DEF BooksOf, WholeUnlessBroken

LEMMA EchoSend ==
  ASSUME EchoInv, NEW c \in Clients, Send(c)
  PROVE  EchoInv'
<1>1. PICK m \in Messages :
        /\ inbox' = [inbox EXCEPT ![c] = Append(inbox[c], m)]
        /\ sent' = [sent EXCEPT ![c] = Append(sent[c], m)]
  BY DEF Send
<1>2. /\ session' = session /\ stream' = stream /\ torn' = torn /\ buffer' = buffer
      /\ echoed' = echoed /\ UNCHANGED <<config, pass>>
  BY DEF Send
<1>3. /\ inbox[c] \in Seq(Messages) /\ sent[c] \in Seq(Messages)
      /\ buffer[c] \in Seq(Messages) /\ echoed[c] \in Seq(Seq(Messages))
      /\ Append(inbox[c], m) \in Seq(Messages) /\ Append(sent[c], m) \in Seq(Messages)
  BY AppendProperties DEF EchoInv, TypeOK
<1>4. inbox'[c] = Append(inbox[c], m) /\ sent'[c] = Append(sent[c], m)
  BY <1>1 DEF EchoInv, TypeOK
<1>5. session[c] \in {"reading", "writing"} /\ stream[c] # "broken"
  BY DEF Send, InUse
<1>6. BooksOf(c)'
  BY <1>2, <1>3, <1>4, <1>5, BooksSend DEF EchoInv, BooksOf
<1>7. WholeUnlessBroken(c)'
  BY <1>2 DEF EchoInv, WholeUnlessBroken
<1>8. ASSUME NEW d \in Clients, d # c PROVE BooksOf(d)' /\ WholeUnlessBroken(d)'
  BY <1>1, <1>2, <1>8, Untouched DEF EchoInv, TypeOK
<1>9. TypeOK'
  BY <1>1, <1>2, <1>3 DEF EchoInv, TypeOK, config, pass, Reads
<1>. QED
  BY <1>6, <1>7, <1>8, <1>9 DEF EchoInv

LEMMA EchoBreak ==
  ASSUME EchoInv, NEW c \in Clients, Break(c) \/ Leave(c)
  PROVE  EchoInv'
<1>1. /\ session' = session /\ buffer' = buffer /\ sent' = sent /\ echoed' = echoed
      /\ UNCHANGED <<config, pass>>
  BY DEF Break, Leave
<1>2. /\ stream[c] = "open" /\ stream'[c] \in {"broken", "closed"}
      /\ stream' = [stream EXCEPT ![c] = stream'[c]]
  BY DEF Break, Leave, InUse, EchoInv, TypeOK
<1>3. /\ inbox'[c] \in {inbox[c], <<>>} /\ (stream'[c] = "closed" => inbox'[c] = inbox[c])
      /\ inbox' = [inbox EXCEPT ![c] = inbox'[c]]
  BY DEF Break, Leave, EchoInv, TypeOK
<1>4. /\ torn'[c] \in Seq(Messages) /\ Len(torn'[c]) <= 1
      /\ (stream'[c] = "closed" => torn'[c] = torn[c])
      /\ torn' = [torn EXCEPT ![c] = torn'[c]]
  <2>1. CASE torn' = torn
    BY <2>1 DEF EchoInv, TypeOK
  <2>2. ASSUME NEW m \in Messages, torn' = [torn EXCEPT ![c] = <<m>>],
               stream'[c] = "broken"
        PROVE  <1>4
    <3>1. torn'[c] = <<m>>
      BY <2>2 DEF EchoInv, TypeOK
    <3>. QED
      BY <2>2, <3>1, OneText
  <2>. QED
    BY <2>1, <2>2 DEF Break, Leave, EchoInv, TypeOK
<1>5. inbox'[c] \in Seq(Messages) /\ Len(<<>>) = 0 /\ Len(sent[c]) \in Nat
  BY <1>3, EmptySeq, LenProperties DEF EchoInv, TypeOK
<1>6. BooksOf(c)'
  <2>1. CASE inbox'[c] = inbox[c]
    BY <2>1, <1>1, <1>2 DEF EchoInv, BooksOf, Books, NothingMissing
  <2>2. CASE inbox'[c] = <<>> /\ stream'[c] = "broken"
    <3>1. InboxIsRest(<<>>, sent[c])
      BY <1>5 DEF InboxIsRest
    <3>. QED
      BY <2>2, <3>1, <1>1, <1>5 DEF EchoInv, BooksOf, Books, NothingMissing
  <2>. QED
    BY <1>2, <1>3, <2>1, <2>2
<1>7. WholeUnlessBroken(c)'
  BY <1>1, <1>2, <1>4 DEF EchoInv, WholeUnlessBroken
<1>8. ASSUME NEW d \in Clients, d # c PROVE BooksOf(d)' /\ WholeUnlessBroken(d)'
  BY <1>1, <1>2, <1>3, <1>4, <1>8, Untouched DEF EchoInv, TypeOK
<1>9. TypeOK'
  <2>1. stream' \in [Clients -> {"open", "closed", "broken"}]
    BY <1>2 DEF EchoInv, TypeOK
  <2>2. inbox' \in [Clients -> Seq(Messages)]
    BY <1>3, <1>5 DEF EchoInv, TypeOK
  <2>3. torn' \in [Clients -> Seq(Messages)] /\ \A d \in Clients : Len(torn'[d]) <= 1
    BY <1>4 DEF EchoInv, TypeOK
  <2>. QED
    BY <1>1, <2>1, <2>2, <2>3 DEF EchoInv, TypeOK, config, pass, Reads
<1>. QED
  BY <1>6, <1>7, <1>8, <1>9 DEF EchoInv

LEMMA EchoReads ==
  ASSUME EchoInv, NEW c \in Clients, OnRead(c)
  PROVE  EchoInv'
<1>1. /\ session[c] = "reading" /\ inbox[c] # <<>>
      /\ inbox' = [inbox EXCEPT ![c] = Tail(inbox[c])]
      /\ buffer' = [buffer EXCEPT ![c] = Append(buffer[c], Head(inbox[c]))]
      /\ session' = [session EXCEPT ![c] = "writing"]
      /\ written' = Loaded(buffer'[c])
      /\ seen' = seen /\ stream' = stream /\ torn' = torn /\ sent' = sent
      /\ echoed' = echoed /\ UNCHANGED pass
  BY DEF OnRead, Goto
<1>2. /\ inbox[c] \in Seq(Messages) /\ sent[c] \in Seq(Messages)
      /\ buffer[c] \in Seq(Messages) /\ echoed[c] \in Seq(Seq(Messages))
  BY DEF EchoInv, TypeOK
<1>3. /\ inbox'[c] = Tail(inbox[c]) /\ buffer'[c] = Append(buffer[c], Head(inbox[c]))
      /\ session'[c] = "writing"
  BY <1>1 DEF EchoInv, TypeOK
<1>4. Head(inbox[c]) \in Messages /\ Tail(inbox[c]) \in Seq(Messages)
  BY <1>1, <1>2, HeadTailProperties
<1>5. Len(buffer[c]) = 0
  BY <1>1 DEF EchoInv, BooksOf, Books, BufferIsNext
<1>6. buffer'[c] \in Seq(Messages) /\ Len(buffer'[c]) <= 1
  BY <1>2, <1>3, <1>4, <1>5, AppendProperties
<1>7. BooksOf(c)'
  BY <1>1, <1>2, <1>3, BooksRead DEF EchoInv, BooksOf
<1>8. WholeUnlessBroken(c)'
  BY <1>1, <1>3 DEF EchoInv, WholeUnlessBroken
<1>9. ASSUME NEW d \in Clients, d # c PROVE BooksOf(d)' /\ WholeUnlessBroken(d)'
  BY <1>1, <1>9, Untouched DEF EchoInv, TypeOK
<1>10. written' \in Settings
  BY <1>1, <1>6, LoadedType DEF EchoInv
<1>11. buffer' \in [Clients -> Seq(Messages)] /\ \A d \in Clients : Len(buffer'[d]) <= 1
  BY <1>1, <1>3, <1>6 DEF EchoInv, TypeOK
<1>12. TypeOK'
  BY <1>1, <1>4, <1>10, <1>11 DEF EchoInv, TypeOK, pass, Reads
<1>. QED
  BY <1>7, <1>8, <1>9, <1>12 DEF EchoInv

LEMMA EchoReadError ==
  ASSUME EchoInv, NEW c \in Clients, OnReadError(c)
  PROVE  EchoInv'
<1>1. /\ session[c] = "reading" /\ stream[c] = "broken"
      /\ buffer' = [buffer EXCEPT ![c] = buffer[c] \o torn[c]]
      /\ session' = [session EXCEPT ![c] = "failed"]
      /\ written' = Loaded(buffer'[c])
      /\ seen' = seen /\ stream' = stream /\ torn' = torn /\ sent' = sent
      /\ inbox' = inbox /\ echoed' = echoed /\ UNCHANGED pass
  BY DEF OnReadError, Goto, peer
<1>2. /\ torn[c] \in Seq(Messages) /\ buffer[c] \in Seq(Messages)
      /\ Len(torn[c]) <= 1 /\ Len(torn[c]) \in Nat
  BY LenProperties DEF EchoInv, TypeOK
<1>3. buffer'[c] = buffer[c] \o torn[c] /\ session'[c] = "failed"
  BY <1>1 DEF EchoInv, TypeOK
<1>4. Len(buffer[c]) = 0
  BY <1>1 DEF EchoInv, BooksOf, Books, BufferIsNext
<1>5. buffer'[c] \in Seq(Messages) /\ Len(buffer'[c]) <= 1
  BY <1>2, <1>3, <1>4, TextAppended
<1>6. BooksOf(c)'
  BY <1>1, <1>3 DEF EchoInv, BooksOf, Books, BufferIsNext, NothingMissing
<1>7. WholeUnlessBroken(c)'
  BY <1>1 DEF WholeUnlessBroken
<1>8. ASSUME NEW d \in Clients, d # c PROVE BooksOf(d)' /\ WholeUnlessBroken(d)'
  BY <1>1, <1>8, Untouched DEF EchoInv, TypeOK
<1>9. written' \in Settings
  BY <1>1, <1>5, LoadedType DEF EchoInv
<1>10. buffer' \in [Clients -> Seq(Messages)] /\ \A d \in Clients : Len(buffer'[d]) <= 1
  BY <1>1, <1>3, <1>5 DEF EchoInv, TypeOK
<1>11. TypeOK'
  BY <1>1, <1>9, <1>10 DEF EchoInv, TypeOK, pass, Reads
<1>. QED
  BY <1>6, <1>7, <1>8, <1>11 DEF EchoInv

LEMMA EchoWrite ==
  ASSUME EchoInv, NEW c \in Clients, OnWrite(c)
  PROVE  EchoInv'
<1>1. /\ session[c] = "writing"
      /\ echoed' = [echoed EXCEPT ![c] = Append(echoed[c], buffer[c])]
      /\ buffer' = [buffer EXCEPT ![c] = <<>>]
      /\ session' = [session EXCEPT ![c] = "reading"]
      /\ stream' = stream /\ torn' = torn /\ sent' = sent /\ inbox' = inbox
      /\ UNCHANGED <<config, pass>>
  BY DEF OnWrite, Goto, peer
<1>2. /\ inbox[c] \in Seq(Messages) /\ sent[c] \in Seq(Messages)
      /\ buffer[c] \in Seq(Messages) /\ echoed[c] \in Seq(Seq(Messages))
      /\ Append(echoed[c], buffer[c]) \in Seq(Seq(Messages))
      /\ <<>> \in Seq(Messages) /\ Len(<<>>) = 0
  BY EmptySeq, AppendProperties DEF EchoInv, TypeOK
<1>3. /\ echoed'[c] = Append(echoed[c], buffer[c]) /\ buffer'[c] = <<>>
      /\ session'[c] = "reading"
  BY <1>1 DEF EchoInv, TypeOK
<1>4. BooksOf(c)'
  BY <1>1, <1>2, <1>3, BooksWrite DEF EchoInv, BooksOf
<1>5. WholeUnlessBroken(c)'
  BY <1>1, <1>3 DEF EchoInv, WholeUnlessBroken
<1>6. ASSUME NEW d \in Clients, d # c PROVE BooksOf(d)' /\ WholeUnlessBroken(d)'
  BY <1>1, <1>6, Untouched DEF EchoInv, TypeOK
<1>7. buffer' \in [Clients -> Seq(Messages)] /\ \A d \in Clients : Len(buffer'[d]) <= 1
  BY <1>1, <1>2 DEF EchoInv, TypeOK
<1>8. TypeOK'
  BY <1>1, <1>2, <1>7 DEF EchoInv, TypeOK, config, pass, Reads
<1>. QED
  BY <1>4, <1>5, <1>6, <1>8 DEF EchoInv

(* The steps that only move a session: into life, or out of it.            *)
LEMMA EchoMoves ==
  ASSUME EchoInv, NEW c \in Clients,
         ListenerAccepts(c) \/ OnAccept(c) \/ OnReadClosed(c) \/ OnWriteError(c)
  PROVE  EchoInv'
<1>1. /\ stream' = stream /\ torn' = torn /\ sent' = sent /\ inbox' = inbox
      /\ echoed' = echoed /\ buffer' = buffer /\ UNCHANGED <<config, pass>>
      /\ session' = [session EXCEPT ![c] = session'[c]]
      /\ \/ session[c] = "none" /\ session'[c] = "handshake"
         \/ session[c] = "handshake" /\ session'[c] = "reading"
         \/ session'[c] = "ended"
  BY DEF ListenerAccepts, OnAccept, OnReadClosed, OnWriteError, Goto, peer, EchoInv, TypeOK
<1>2. BooksOf(c)'
  BY <1>1 DEF EchoInv, BooksOf, Books, BufferIsNext, NothingMissing
<1>3. WholeUnlessBroken(c)'
  BY <1>1 DEF EchoInv, WholeUnlessBroken
<1>4. ASSUME NEW d \in Clients, d # c PROVE BooksOf(d)' /\ WholeUnlessBroken(d)'
  BY <1>1, <1>4, Untouched DEF EchoInv, TypeOK
<1>5. TypeOK'
  BY <1>1 DEF EchoInv, TypeOK, config, pass, Reads
<1>. QED
  BY <1>2, <1>3, <1>4, <1>5 DEF EchoInv

(* The main thread and the visibility of stores.                           *)
LEMMA EchoMain ==
  ASSUME EchoInv, Main \/ Publish
  PROVE  EchoInv'
<1>1. /\ session' = session /\ stream' = stream /\ torn' = torn /\ sent' = sent
      /\ inbox' = inbox /\ echoed' = echoed /\ buffer' = buffer /\ written' = written
  BY DEF Main, BeginPass, ReadSize, EndPass, Publish, peer, config
<1>2. \A d \in Clients : BooksOf(d)' /\ WholeUnlessBroken(d)'
  BY <1>1, Untouched DEF EchoInv
<1>3. seen' \in Settings
  BY DEF EchoInv, TypeOK, Main, BeginPass, ReadSize, EndPass, Publish, config, Settings
<1>4. /\ main' \in {"asleep", "pass"} /\ mode' \in Routes
      /\ sizes' \in Seq(Sizes) /\ Len(sizes') <= Reads'
  <2>1. CASE BeginPass
    BY <2>1, EmptySeq, BoundsAssumption DEF BeginPass, EchoInv, TypeOK, Settings, Reads
  <2>2. CASE ReadSize
    <3>1. sizes' = Append(sizes, seen.size) /\ sizes \in Seq(Sizes) /\ seen.size \in Sizes
      BY <2>2 DEF ReadSize, EchoInv, TypeOK, Settings
    <3>2. sizes' \in Seq(Sizes) /\ Len(sizes') = Len(sizes) + 1 /\ Len(sizes) \in Nat
      BY <3>1, AppendProperties, LenProperties
    <3>3. Reads \in Nat /\ Reads' = Reads
      BY <2>2, BoundsAssumption DEF Reads, ReadSize
    <3>. QED
      BY <2>2, <3>2, <3>3 DEF ReadSize, EchoInv, TypeOK
  <2>3. CASE EndPass \/ Publish
    BY <2>3 DEF EndPass, Publish, pass, EchoInv, TypeOK, Reads
  <2>. QED
    BY <2>1, <2>2, <2>3 DEF Main
<1>5. TypeOK'
  BY <1>1, <1>3, <1>4 DEF EchoInv, TypeOK
<1>. QED
  BY <1>2, <1>5 DEF EchoInv

LEMMA EchoNext == EchoInv /\ [Next]_vars => EchoInv'
<1>. SUFFICES ASSUME EchoInv, [Next]_vars PROVE EchoInv'
  OBVIOUS
<1>1. ASSUME NEW c \in Clients, Client(c) \/ Server(c) PROVE EchoInv'
  BY <1>1, EchoSend, EchoBreak, EchoReads, EchoReadError, EchoWrite, EchoMoves
     DEF Client, Server
<1>2. CASE UNCHANGED vars
  BY <1>2, Untouched DEF vars, config, peer, pass, EchoInv, TypeOK, Reads
<1>. QED
  BY <1>1, <1>2, EchoMain DEF Next

THEOREM EchoInvariant == Spec => []EchoInv
  BY EchoInit, EchoNext, PTL DEF Spec

(* Every variable of the settings and their server has its type, and a     *)
(* session never holds more than the one text it writes back.              *)
THEOREM TypeCorrect == Spec => []TypeOK
<1>1. EchoInv => TypeOK
  BY DEF EchoInv
<1>. QED
  BY <1>1, EchoInvariant, PTL

(* However many messages clients have under way and however connections    *)
(* break, on_read and on_write echo a client's own messages, whole and in  *)
(* order.                                                                  *)
THEOREM EchoesAreInOrder == Spec => []EchoesAreMessages
<1>1. EchoInv => EchoesAreMessages
  BY DEF EchoInv, BooksOf, Books, EchoesOf, EchoesAreMessages
<1>. QED
  BY <1>1, EchoInvariant, PTL
-----------------------------------------------------------------------------
(* The inductive invariant behind the settings: both views of HESConfig    *)
(* hold what was the default or arrived, as does what the pass has read.   *)

SizeIn(v, S) == v = "small" \/ \E m \in S : m.size = v
RouteIn(v, S) == v = "yes" \/ \E m \in S : m.route = v /\ m.size # "none"

SettingsInv ==
  /\ SizeIn(written.size, Arrived) /\ RouteIn(written.route, Arrived)
  /\ SizeIn(seen.size, Arrived) /\ RouteIn(seen.route, Arrived)
  /\ SettingsWereSent

(* What arrived stays.                                                     *)
LEMMA ArrivedStays ==
  ASSUME EchoInv, [Next]_vars
  PROVE  Arrived \subseteq Arrived'
<1>1. ASSUME NEW c \in Clients, Send(c) PROVE Arrived \subseteq Arrived'
  <2>1. PICK n \in Messages : sent' = [sent EXCEPT ![c] = Append(sent[c], n)]
    BY <1>1 DEF Send
  <2>2. torn' = torn
    BY <1>1 DEF Send
  <2>3. ASSUME NEW d \in Clients, NEW i \in 1..Len(sent[d])
        PROVE  i \in 1..Len(sent'[d]) /\ sent'[d][i] = sent[d][i]
    <3>1. CASE d = c
      <4>1. sent[c] \in Seq(Messages) /\ sent'[c] = Append(sent[c], n)
        BY <2>1 DEF EchoInv, TypeOK
      <4>. QED
        BY <3>1, <4>1, AppendStays
    <3>2. CASE d # c
      BY <3>2, <2>1 DEF EchoInv, TypeOK
    <3>. QED
      BY <3>1, <3>2
  <2>. QED
    BY <2>2, <2>3 DEF Arrived
<1>2. ASSUME NEW c \in Clients, Break(c) PROVE Arrived \subseteq Arrived'
  <2>1. sent' = sent /\ torn[c] = <<>>
    BY <1>2 DEF Break, EchoInv, WholeUnlessBroken
  <2>2. \A d \in Clients : torn'[d] = torn[d] \/ d = c
    BY <1>2 DEF Break, EchoInv, TypeOK
  <2>3. \A d \in Clients, m \in Messages : torn[d] = <<m>> => torn'[d] = <<m>>
    BY <2>1, <2>2
  <2>. QED
    BY <2>1, <2>3 DEF Arrived
<1>3. CASE UNCHANGED <<sent, torn>>
  BY <1>3 DEF Arrived
<1>4. ASSUME NEW c \in Clients, Server(c) \/ ListenerAccepts(c) \/ Leave(c)
      PROVE  UNCHANGED <<sent, torn>>
  BY <1>4 DEF Server, OnAccept, OnRead, OnReadClosed, OnReadError, OnWrite, OnWriteError,
              ListenerAccepts, Leave, peer
<1>5. ASSUME Main \/ Publish \/ UNCHANGED vars PROVE UNCHANGED <<sent, torn>>
  BY <1>5 DEF Main, BeginPass, ReadSize, EndPass, Publish, vars, peer
<1>. QED
  BY <1>1, <1>2, <1>3, <1>4, <1>5 DEF Next, Client

(* A load of a message that arrived keeps to what arrived.                 *)
LEMMA LoadedArrived ==
  ASSUME EchoInv, SettingsInv, NEW text \in Seq(Messages),
         Len(text) = 1 => text[1] \in Arrived
  PROVE  SizeIn(Loaded(text).size, Arrived) /\ RouteIn(Loaded(text).route, Arrived)
<1>1. CASE Len(text) # 1 \/ text[1].size = "none"
  BY <1>1 DEF Loaded, SettingsInv
<1>2. CASE ~(Len(text) # 1 \/ text[1].size = "none")
  BY <1>2 DEF Loaded, SettingsInv, SizeIn, RouteIn
<1>. QED
  BY <1>1, <1>2

(* What a session loads has arrived: a whole message that was sent, or the *)
(* part of one in front of which the buffer is empty.                      *)
LEMMA WrittenArrived ==
  ASSUME EchoInv, SettingsInv, NEW c \in Clients, OnRead(c) \/ OnReadError(c)
  PROVE  SizeIn(written'.size, Arrived) /\ RouteIn(written'.route, Arrived)
<1>1. CASE OnRead(c)
  <2>1. /\ inbox[c] # <<>> /\ session[c] = "reading"
        /\ buffer'[c] = Append(buffer[c], Head(inbox[c])) /\ written' = Loaded(buffer'[c])
    BY <1>1 DEF OnRead, EchoInv, TypeOK
  <2>2. inbox[c] \in Seq(Messages) /\ sent[c] \in Seq(Messages) /\ buffer[c] \in Seq(Messages)
    BY DEF EchoInv, TypeOK
  <2>3. InboxIsRest(inbox[c], sent[c]) /\ Len(buffer[c]) = 0
    BY <2>1 DEF EchoInv, BooksOf, Books, BufferIsNext
  <2>4. PICK i \in 1..Len(sent[c]) : Head(inbox[c]) = sent[c][i]
    BY <2>1, <2>2, <2>3, FirstWasSent
  <2>5. Head(inbox[c]) \in Messages
    BY <2>1, <2>2, HeadTailProperties
  <2>6. Head(inbox[c]) \in Arrived
    BY <2>4, <2>5 DEF Arrived
  <2>7. buffer'[c] \in Seq(Messages) /\ (Len(buffer'[c]) = 1 => buffer'[c][1] = Head(inbox[c]))
    BY <2>1, <2>2, <2>3, <2>5, OnlyOne
  <2>. QED
    BY <2>1, <2>6, <2>7, LoadedArrived
<1>2. CASE OnReadError(c)
  <2>1. /\ session[c] = "reading" /\ buffer'[c] = buffer[c] \o torn[c]
        /\ written' = Loaded(buffer'[c])
    BY <1>2 DEF OnReadError, EchoInv, TypeOK
  <2>2. torn[c] \in Seq(Messages) /\ buffer[c] \in Seq(Messages) /\ Len(torn[c]) <= 1
    BY DEF EchoInv, TypeOK
  <2>3. Len(buffer[c]) = 0
    BY <2>1 DEF EchoInv, BooksOf, Books, BufferIsNext
  <2>4. buffer'[c] = torn[c]
    BY <2>1, <2>2, <2>3, NothingInFront
  <2>5. Len(torn[c]) = 1 => torn[c] = <<torn[c][1]>> /\ torn[c][1] \in Messages
    BY <2>2, SingleText
  <2>6. Len(torn[c]) = 1 => torn[c][1] \in Arrived
    BY <2>5 DEF Arrived
  <2>. QED
    BY <2>1, <2>2, <2>4, <2>6, LoadedArrived
<1>. QED
  BY <1>1, <1>2

LEMMA SettingsInit == Init => SettingsInv
  BY DEF Init, SettingsInv, SizeIn, RouteIn, SettingsWereSent

LEMMA SettingsNext == EchoInv /\ SettingsInv /\ [Next]_vars => SettingsInv'
<1>. SUFFICES ASSUME EchoInv, SettingsInv, [Next]_vars PROVE SettingsInv'
  OBVIOUS
<1>1. Arrived \subseteq Arrived'
  BY ArrivedStays
<1>2. SizeIn(written'.size, Arrived') /\ RouteIn(written'.route, Arrived')
  <2>1. ASSUME NEW c \in Clients, Client(c) \/ Server(c), written' # written
        PROVE  OnRead(c) \/ OnReadError(c)
    BY <2>1 DEF Client, Server, OnAccept, OnReadClosed, OnWrite, OnWriteError,
                ListenerAccepts, Send, Leave, Break, config
  <2>2. CASE written' = written
    BY <2>2, <1>1 DEF SettingsInv, SizeIn, RouteIn
  <2>3. CASE written' # written
    <3>1. PICK c \in Clients : OnRead(c) \/ OnReadError(c)
      BY <2>1, <2>3 DEF Next, Main, BeginPass, ReadSize, EndPass, Publish, vars, config
    <3>. QED
      BY <3>1, <1>1, WrittenArrived DEF SizeIn, RouteIn
  <2>. QED
    BY <2>2, <2>3
<1>3. SizeIn(seen'.size, Arrived') /\ RouteIn(seen'.route, Arrived')
  <2>1. CASE seen' = seen
    BY <2>1, <1>1 DEF SettingsInv, SizeIn, RouteIn
  <2>2. CASE Publish
    <3>1. seen'.size \in {seen.size, written.size} /\ seen'.route \in {seen.route, written.route}
      BY <2>2 DEF Publish, EchoInv, TypeOK, Settings
    <3>. QED
      BY <3>1, <1>1 DEF SettingsInv, SizeIn, RouteIn
  <2>. QED
    BY <2>1, <2>2 DEF Next, Client, Server, OnAccept, OnRead, OnReadClosed, OnReadError,
         OnWrite, OnWriteError, ListenerAccepts, Send, Leave, Break, Main, BeginPass,
         ReadSize, EndPass, vars, config
<1>4. SettingsWereSent'
  <2>1. RouteIn(mode, Arrived) /\ \A i \in 1..Len(sizes) : SizeIn(sizes[i], Arrived)
    BY DEF SettingsInv, SettingsWereSent, SizeIn, RouteIn
  <2>2. RouteIn(mode', Arrived) /\ \A i \in 1..Len(sizes') : SizeIn(sizes'[i], Arrived)
    <3>1. CASE UNCHANGED <<mode, sizes>>
      BY <2>1, <3>1
    <3>2. CASE BeginPass
      BY <3>2, EmptySeq DEF BeginPass, SettingsInv
    <3>3. CASE ReadSize
      <4>1. mode' = mode /\ sizes' = Append(sizes, seen.size)
        BY <3>3 DEF ReadSize
      <4>2. sizes \in Seq(Sizes) /\ seen.size \in Sizes /\ SizeIn(seen.size, Arrived)
        BY DEF EchoInv, TypeOK, Settings, SettingsInv
      <4>3. \A i \in 1..Len(sizes') :
              \/ i \in 1..Len(sizes) /\ sizes'[i] = sizes[i]
              \/ sizes'[i] = seen.size
        BY <4>1, <4>2, AppendProperties, LenProperties
      <4>. QED
        BY <2>1, <4>1, <4>2, <4>3
    <3>. QED
      BY <3>1, <3>2, <3>3 DEF Next, Client, Server, OnAccept, OnRead, OnReadClosed,
           OnReadError, OnWrite, OnWriteError, ListenerAccepts, Send, Leave, Break, Main,
           EndPass, Publish, vars, pass
  <2>3. RouteIn(mode', Arrived') /\ \A i \in 1..Len(sizes') : SizeIn(sizes'[i], Arrived')
    BY <2>2, <1>1 DEF SizeIn, RouteIn
  <2>. QED
    BY <2>3 DEF SettingsWereSent, SizeIn, RouteIn
<1>. QED
  BY <1>2, <1>3, <1>4 DEF SettingsInv, SizeIn, RouteIn

(* Whatever the server's stores and main's reads interleave, and whichever *)
(* messages load only halfway, a pass uses settings that somebody sent.    *)
THEOREM PassesUseWhatWasSent == Spec => []SettingsWereSent
<1>1. SettingsInv => SettingsWereSent
  BY DEF SettingsInv
<1>2. Spec => []SettingsInv
  BY SettingsInit, SettingsNext, EchoInvariant, PTL DEF Spec
<1>. QED
  BY <1>1, <1>2, PTL

-----------------------------------------------------------------------------
(* HeadEnd.                                                                *)

Types ==
  /\ meterPc \in [Meters -> {"start", "connected", "registered", "listening", "serving"}]
  /\ conns \in Seq(Connection)
  /\ server \in {"accepting", "receiving", "ended"}
  /\ meters \subseteq Meters /\ visited \subseteq Meters
  /\ mainPc \in {"asleep", "pass", "terminated"}
  /\ raced \in BOOLEAN /\ stopped \in BOOLEAN
  /\ faults \in 0..MaxFaults /\ broken \in BOOLEAN /\ lost \subseteq Meters

Queued(m, state) == \E i \in 1..Len(conns) : conns[i] = [meter |-> m, state |-> state]
Known(m) == m \in meters \/ m \in lost

(* The connection in receive() is of a meter that is on the list already,  *)
(* connections end without R only when a meter failed, and only such a     *)
(* connection, or the end of the process, ends the server.                 *)
Queue ==
  /\ server = "receiving" => conns # <<>> /\ conns[1].meter \in meters
  /\ \A i \in 1..Len(conns) : conns[i].state \in Broken => broken
  /\ ServerEndsByBrokenOne

(* A meter that is not on the list is on its way to it.                    *)
OnTheWay(m) ==
  /\ meterPc[m] = "connected" => Known(m) \/ Queued(m, "open")
  /\ BelievesRegistered(m) => Known(m) \/ Queued(m, "sent")

IInv == Types /\ Queue /\ \A m \in Meters : OnTheWay(m)
-----------------------------------------------------------------------------
(* Connections.                                                            *)

LEMMA ConnectionTypes ==
  ASSUME NEW c \in Connection
  PROVE  /\ c.meter \in Meters /\ c.state \in {"open", "sent"} \cup Broken
         /\ c = [meter |-> c.meter, state |-> c.state]
BY DEF Connection

(* Marked() changes the state of a meter's open connections only.          *)
LEMMA MarkedIs ==
  ASSUME conns \in Seq(Connection), NEW m \in Meters, NEW s \in {"sent"} \cup Broken
  PROVE  /\ Marked(m, s) \in Seq(Connection) /\ Len(Marked(m, s)) = Len(conns)
         /\ \A i \in 1..Len(conns) :
              /\ Marked(m, s)[i].meter = conns[i].meter
              /\ Marked(m, s)[i].state =
                   IF conns[i].meter = m /\ conns[i].state = "open" THEN s ELSE conns[i].state
<1> DEFINE r == Marked(m, s)
<1>1. Len(conns) \in Nat /\ DOMAIN conns = 1..Len(conns)
  BY LenProperties
<1>2. \A i \in 1..Len(conns) : conns[i] \in Connection
  BY ElementOfSeq
<1>3. r = [i \in 1..Len(conns) |->
             IF conns[i].meter = m /\ conns[i].state = "open" THEN [conns[i] EXCEPT !.state = s]
             ELSE conns[i]]
  BY <1>1 DEF Marked
<1>4. \A i \in 1..Len(conns) :
        /\ r[i] \in Connection /\ r[i].meter = conns[i].meter
        /\ r[i].state = IF conns[i].meter = m /\ conns[i].state = "open" THEN s ELSE conns[i].state
  BY <1>2, <1>3 DEF Connection
<1>5. r \in [1..Len(conns) -> Connection]
  BY <1>3, <1>4
<1>6. r \in Seq(Connection)
  BY <1>1, <1>5, SeqDef
<1>7. Len(r) = Len(conns)
  <2>1. DOMAIN r = 1..Len(conns) /\ DOMAIN r = 1..Len(r) /\ Len(r) \in Nat
    BY <1>3, <1>6, LenProperties
  <2>2. QED
    BY <1>1, <2>1
<1>8. QED
  BY <1>4, <1>6, <1>7

LEMMA MarkedQueued ==
  ASSUME conns \in Seq(Connection), NEW m \in Meters, NEW s \in {"sent"} \cup Broken,
         conns' = Marked(m, s)
  PROVE  /\ \A d \in Meters \ {m}, x \in {"open", "sent"} : Queued(d, x) => Queued(d, x)'
         /\ Queued(m, "sent") => Queued(m, "sent")'
         /\ Queued(m, "open") => Queued(m, s)'
<1>1. \A i \in 1..Len(conns) : conns[i] \in Connection /\ conns'[i] \in Connection
  BY MarkedIs, ElementOfSeq
<1>2. ASSUME NEW d \in Meters, NEW x \in {"open", "sent"} \cup Broken,
             NEW i \in 1..Len(conns),
             conns[i] = [meter |-> d, state |-> x]
      PROVE  conns'[i] = [meter |-> d, state |-> IF d = m /\ x = "open" THEN s ELSE x]
  <2>1. conns[i].meter = d /\ conns[i].state = x
    BY <1>2
  <2>2. conns'[i].meter = d /\ conns'[i].state = IF d = m /\ x = "open" THEN s ELSE x
    BY <2>1, MarkedIs
  <2>3. conns'[i] = [meter |-> conns'[i].meter, state |-> conns'[i].state]
    <3>1. conns'[i] \in Connection
      BY <1>1, MarkedIs
    <3>2. QED
      BY <3>1, ConnectionTypes
  <2>4. QED
    BY <2>2, <2>3
<1>3. Len(conns') = Len(conns)
  BY MarkedIs
<1>4. QED
  BY <1>2, <1>3 DEF Queued

(* Registered() of the other meters does not change.                       *)
LEMMA MeterGoesOthers ==
  ASSUME Types, NEW m \in Meters, NEW label, MeterGoes(m, label)
  PROVE  /\ meterPc'[m] = label
         /\ \A d \in Meters \ {m} : meterPc'[d] = meterPc[d]
BY DEF Types, MeterGoes

LEMMA ConnectsStep == ASSUME IInv, NEW m \in Meters, MeterConnects(m) PROVE IInv'
<1> DEFINE c == [meter |-> m, state |-> "open"]
<1>1. /\ conns' = Append(conns, c) /\ MeterGoes(m, "connected")
      /\ lost' = lost \ {m}
      /\ UNCHANGED <<server, meters, mainPc, visited, stopped, raced, faults, broken>>
  BY DEF MeterConnects, mainThread
<1>2. conns \in Seq(Connection) /\ c \in Connection /\ c.state = "open"
  BY DEF IInv, Types, Connection
<1>3. /\ conns' \in Seq(Connection) /\ conns' # <<>> /\ Len(conns') = Len(conns) + 1
      /\ Len(conns) \in Nat
      /\ \A i \in 1..Len(conns) : conns'[i] = conns[i]
      /\ conns'[Len(conns) + 1] = c
  BY <1>1, <1>2, AppendProperties, LenProperties
<1> HIDE DEF c
<1>4. \A i \in 1..Len(conns') : i \in 1..Len(conns) \/ i = Len(conns) + 1
  BY <1>3
<1>5. Len(conns) + 1 \in 1..Len(conns') /\ \A i \in 1..Len(conns) : i \in 1..Len(conns')
  BY <1>3
<1>6. Types'
  BY <1>1, <1>3 DEF IInv, Types, MeterGoes
<1>7. Queue'
  <2>1. ASSUME server = "receiving" PROVE conns'[1] = conns[1]
    <3>1. Len(conns) > 0
      BY <1>2, <1>3, <2>1, EmptySeq DEF IInv, Queue
    <3>2. QED
      BY <1>3, <3>1
  <2>2. \A i \in 1..Len(conns') : conns'[i].state \in Broken => broken'
    BY <1>1, <1>2, <1>3, <1>4 DEF IInv, Queue, Broken
  <2>3. QED
    BY <1>1, <1>3, <2>1, <2>2 DEF IInv, Queue, ServerEndsByBrokenOne
<1>8. ASSUME NEW d \in Meters PROVE OnTheWay(d)'
  <2>1. \A x \in {"open", "sent"} : Queued(d, x) => Queued(d, x)'
    BY <1>3, <1>5 DEF Queued
  <2>2. d # m => (Known(d) => Known(d)')
    BY <1>1 DEF Known
  <2>3. CASE d = m
    <3>1. Queued(d, "open")'
      BY <1>3, <1>5, <2>3 DEF Queued, c
    <3>2. meterPc'[d] = "connected"
      BY <1>1, <2>3, MeterGoesOthers DEF IInv
    <3>3. QED
      BY <3>1, <3>2 DEF OnTheWay, BelievesRegistered
  <2>4. CASE d # m
    BY <1>1, <2>1, <2>2, <2>4, MeterGoesOthers DEF OnTheWay, BelievesRegistered, IInv
  <2>5. QED
    BY <2>3, <2>4
<1>9. QED
  BY <1>6, <1>7, <1>8 DEF IInv

LEMMA SendsRStep == ASSUME IInv, NEW m \in Meters, MeterSendsR(m) PROVE IInv'
<1>1. /\ meterPc[m] = "connected" /\ conns' = Marked(m, "sent")
      /\ UNCHANGED <<server, meters, mainPc, visited, stopped, raced, faults, broken, lost>>
  BY DEF MeterSendsR, mainThread, history
<1>2. PICK label \in {"registered", "start"} : MeterGoes(m, label)
  BY DEF MeterSendsR
<1>3. conns \in Seq(Connection) /\ Len(conns) \in Nat /\ Len(conns') = Len(conns)
  BY <1>1, MarkedIs, LenProperties DEF IInv, Types
<1>4. /\ conns' \in Seq(Connection) /\ (conns = <<>> <=> conns' = <<>>)
      /\ \A i \in 1..Len(conns) :
           conns'[i].meter = conns[i].meter /\ conns'[i].state \in {conns[i].state, "sent"}
  BY <1>1, <1>3, MarkedIs, EmptySeq
<1>5. Types'
  BY <1>1, <1>2, <1>4 DEF IInv, Types, MeterGoes
<1>6. Queue'
  <2>1. ASSUME server = "receiving" PROVE conns'[1].meter = conns[1].meter
    BY <1>3, <1>4, <2>1, EmptySeq DEF IInv, Queue
  <2>2. \A i \in 1..Len(conns') : conns'[i].state \in Broken => broken'
    BY <1>1, <1>3, <1>4 DEF IInv, Queue, Broken
  <2>3. QED
    BY <1>1, <1>3, <1>4, <2>1, <2>2 DEF IInv, Queue, ServerEndsByBrokenOne
<1>7. ASSUME NEW d \in Meters PROVE OnTheWay(d)'
  <2>1. Known(d)' = Known(d)
    BY <1>1 DEF Known
  <2>2. /\ d # m => \A x \in {"open", "sent"} : Queued(d, x) => Queued(d, x)'
        /\ d = m => (Queued(d, "open") => Queued(d, "sent")')
    BY <1>1, <1>3, MarkedQueued
  <2>3. QED
    BY <1>1, <1>2, <2>1, <2>2, MeterGoesOthers DEF OnTheWay, BelievesRegistered, IInv
<1>8. QED
  BY <1>5, <1>6, <1>7 DEF IInv

LEMMA FailsStep == ASSUME IInv, NEW m \in Meters, MeterFails(m) PROVE IInv'
<1>1. /\ MeterGoes(m, "start") /\ faults < MaxFaults /\ faults' = faults + 1
      /\ broken' = (broken \/ HasOpen(m))
      /\ UNCHANGED <<server, meters, mainPc, visited, stopped, raced, lost>>
  BY DEF MeterFails, Fault, mainThread
<1>2. PICK s \in Broken : conns' = Marked(m, s)
  BY DEF MeterFails
<1>3. conns \in Seq(Connection) /\ Len(conns) \in Nat /\ Len(conns') = Len(conns)
      /\ DOMAIN conns = 1..Len(conns)
  BY <1>2, MarkedIs, LenProperties DEF IInv, Types
<1>4. /\ conns' \in Seq(Connection) /\ (conns = <<>> <=> conns' = <<>>)
      /\ \A i \in 1..Len(conns) :
           /\ conns'[i].meter = conns[i].meter
           /\ conns'[i].state = conns[i].state \/ HasOpen(m)
  BY <1>2, <1>3, MarkedIs, EmptySeq DEF HasOpen
<1>5. broken' \in BOOLEAN /\ faults' \in 0..MaxFaults
  BY <1>1, FaultsAssumption DEF IInv, Types
<1>6. Types'
  BY <1>1, <1>4, <1>5 DEF IInv, Types, MeterGoes
<1>7. Queue'
  <2>1. ASSUME server = "receiving" PROVE conns'[1].meter = conns[1].meter
    BY <1>3, <1>4, <2>1, EmptySeq DEF IInv, Queue
  <2>2. QED
    BY <1>1, <1>3, <1>4, <2>1 DEF IInv, Queue, ServerEndsByBrokenOne
<1>8. ASSUME NEW d \in Meters PROVE OnTheWay(d)'
  <2>1. Known(d) => Known(d)'
    BY <1>1 DEF Known
  <2>2. d # m => \A x \in {"open", "sent"} : Queued(d, x) => Queued(d, x)'
    BY <1>2, <1>3, MarkedQueued
  <2>3. QED
    BY <1>1, <2>1, <2>2, MeterGoesOthers DEF OnTheWay, BelievesRegistered, IInv
<1>9. QED
  BY <1>6, <1>7, <1>8 DEF IInv

(* When the server ends, the meters that waited have lost what they sent.  *)
LEMMA RegsEndsStep ==
  ASSUME IInv, RegsEnds, UNCHANGED <<meterPc, meters, visited, raced, stopped>>,
         mainPc' = "terminated" \/ (mainPc' = mainPc /\ broken), faults' \in 0..MaxFaults
  PROVE  IInv'
<1>1. server' = "ended" /\ conns' = <<>> /\ lost' = lost \cup Waiting /\ broken' = broken
  BY DEF RegsEnds
<1>2. conns \in Seq(Connection) /\ DOMAIN conns = 1..Len(conns)
  BY LenProperties DEF IInv, Types
<1>3. Waiting \subseteq Meters
  <2>1. \A i \in 1..Len(conns) : conns[i].meter \in Meters
    BY <1>2, ElementOfSeq, ConnectionTypes
  <2>2. QED
    BY <1>2, <2>1 DEF Waiting
<1>4. Types'
  BY <1>1, <1>3, EmptySeq DEF IInv, Types
<1>5. Queue'
  BY <1>1 DEF Queue, ServerEndsByBrokenOne
<1>6. ASSUME NEW d \in Meters PROVE OnTheWay(d)'
  <2>1. \A x : Queued(d, x) => d \in Waiting
    BY <1>2 DEF Queued, Waiting
  <2>2. QED
    BY <1>1, <2>1 DEF IInv, OnTheWay, Known, BelievesRegistered
<1>7. QED
  BY <1>4, <1>5, <1>6 DEF IInv

LEMMA AcceptStep == ASSUME IInv, Accept PROVE IInv'
<1>1. /\ server = "accepting" /\ conns # <<>>
      /\ UNCHANGED <<meterPc, mainPc, visited, stopped, faults>>
  BY DEF Accept, mainThread
<1>2. conns[1] \in Connection /\ conns[1].meter \in Meters /\ 1 \in 1..Len(conns)
  <2>1. 1 \in 1..Len(conns)
    BY <1>1, EmptySeq DEF IInv, Types
  <2>2. conns[1] \in Connection
    BY <2>1, ElementOfSeq DEF IInv, Types
  <2>3. QED
    BY <2>1, <2>2, ConnectionTypes
<1>3. CASE conns[1].state # "reset"
  <2>1. /\ server' = "receiving" /\ meters' = meters \cup {conns[1].meter}
        /\ raced' = (raced \/ (mainPc = "pass" /\ meters' # meters))
        /\ UNCHANGED <<conns, broken, lost>>
    BY <1>3 DEF Accept, history
  <2>2. raced' \in BOOLEAN
    BY <2>1
  <2>3. Types'
    BY <1>1, <1>2, <2>1, <2>2 DEF IInv, Types
  <2>4. Queue'
    BY <1>1, <2>1 DEF IInv, Queue, ServerEndsByBrokenOne
  <2>5. ASSUME NEW d \in Meters PROVE OnTheWay(d)'
    BY <1>1, <2>1 DEF IInv, OnTheWay, Known, Queued, BelievesRegistered
  <2>6. QED
    BY <2>3, <2>4, <2>5 DEF IInv
<1>4. CASE conns[1].state = "reset"
  <2>1. RegsEnds /\ UNCHANGED <<meters, raced>>
    BY <1>4 DEF Accept
  <2>2. broken
    BY <1>2, <1>4 DEF IInv, Queue, Broken
  <2>3. faults' \in 0..MaxFaults
    BY <1>1 DEF IInv, Types
  <2>4. QED
    BY <1>1, <2>1, <2>2, <2>3, RegsEndsStep
<1>5. QED
  BY <1>3, <1>4

LEMMA ReceiveStep == ASSUME IInv, Receive PROVE IInv'
<1>1. /\ server = "receiving"
      /\ UNCHANGED <<meterPc, meters, mainPc, visited, stopped, raced, faults>>
  BY DEF Receive, mainThread
<1>2. /\ conns \in Seq(Connection) /\ conns # <<>> /\ Len(conns) \in Nat /\ Len(conns) > 0
      /\ conns[1].meter \in meters
  BY <1>1, EmptySeq, LenProperties DEF IInv, Types, Queue
<1>3. CASE /\ conns[1].state = "sent" /\ server' = "accepting" /\ conns' = Tail(conns)
           /\ UNCHANGED <<broken, lost>>
  <2>1. /\ conns' \in Seq(Connection) /\ Len(conns') = Len(conns) - 1
        /\ \A i \in 1..Len(conns') : conns'[i] = conns[i + 1]
    BY <1>2, <1>3, HeadTailProperties
  <2>2. \A i \in 1..Len(conns') : i + 1 \in 1..Len(conns)
    BY <1>2, <2>1
  <2>3. Types'
    BY <1>1, <1>3, <2>1 DEF IInv, Types
  <2>4. Queue'
    BY <1>1, <1>3, <2>1, <2>2 DEF IInv, Queue, ServerEndsByBrokenOne
  <2>5. ASSUME NEW d \in Meters, NEW x, Queued(d, x) PROVE d \in meters \/ Queued(d, x)'
    <3>1. PICK i \in 1..Len(conns) : conns[i] = [meter |-> d, state |-> x]
      BY <2>5 DEF Queued
    <3>2. CASE i = 1
      BY <1>2, <3>1, <3>2
    <3>3. CASE i # 1
      <4>1. i - 1 \in 1..Len(conns') /\ (i - 1) + 1 = i
        BY <1>2, <2>1, <3>1, <3>3
      <4>2. conns'[i - 1] = conns[i]
        BY <2>1, <4>1
      <4>3. QED
        BY <3>1, <4>1, <4>2 DEF Queued
    <3>4. QED
      BY <3>2, <3>3
  <2>6. ASSUME NEW d \in Meters PROVE OnTheWay(d)'
    BY <1>1, <1>3, <2>5 DEF IInv, OnTheWay, Known, BelievesRegistered
  <2>7. QED
    BY <2>3, <2>4, <2>6 DEF IInv
<1>4. CASE conns[1].state \in {"closed", "reset"} /\ RegsEnds
  <2>1. broken
    <3>1. 1 \in 1..Len(conns) /\ conns[1].state \in Broken
      BY <1>2, <1>4 DEF Broken
    <3>2. QED
      BY <3>1 DEF IInv, Queue
  <2>2. faults' \in 0..MaxFaults
    BY <1>1 DEF IInv, Types
  <2>3. QED
    BY <1>1, <1>4, <2>1, <2>2, RegsEndsStep
<1>5. QED
  BY <1>3, <1>4 DEF Receive, history

LEMMA FaultTypes == ASSUME Types, Fault PROVE faults' \in 0..MaxFaults
BY FaultsAssumption DEF Types, Fault

LEMMA ProcessEndsStep == ASSUME IInv, MultiReadThrows \/ SessionThrows PROVE IInv'
<1>1. /\ mainPc' = "terminated" /\ RegsEnds /\ Fault
      /\ UNCHANGED <<meterPc, meters, visited, raced, stopped>>
  BY DEF MultiReadThrows, SessionThrows, ProcessEnds
<1>2. QED
  BY <1>1, FaultTypes, RegsEndsStep DEF IInv

(* The head-end's process starts again, and has lost what it had.          *)
LEMMA RestartStep == ASSUME IInv, Restart PROVE IInv'
<1>1. /\ conns' = <<>> /\ lost' = lost \cup meters \cup Waiting /\ broken' = FALSE
      /\ server' = "accepting" /\ meters' = {} /\ visited' = {} /\ mainPc' = "asleep"
      /\ raced' = FALSE /\ stopped' = FALSE /\ meterPc' = meterPc
  BY DEF Restart
<1>2. faults' \in 0..MaxFaults
  <2>1. faults' = faults \/ Fault
    BY DEF Restart
  <2>2. QED
    BY <2>1, FaultTypes DEF IInv, Types
<1>3. DOMAIN conns = 1..Len(conns) /\ Waiting \subseteq Meters
  <2>1. conns \in Seq(Connection) /\ DOMAIN conns = 1..Len(conns)
    BY LenProperties DEF IInv, Types
  <2>2. \A i \in 1..Len(conns) : conns[i].meter \in Meters
    BY <2>1, ElementOfSeq, ConnectionTypes
  <2>3. QED
    BY <2>1, <2>2 DEF Waiting
<1>4. Types'
  BY <1>1, <1>2, <1>3, EmptySeq DEF IInv, Types
<1>5. Queue'
  BY <1>1 DEF Queue, ServerEndsByBrokenOne
<1>6. ASSUME NEW d \in Meters PROVE OnTheWay(d)'
  <2>1. \A x : Queued(d, x) => d \in Waiting
    BY <1>3 DEF Queued, Waiting
  <2>2. QED
    BY <1>1, <2>1 DEF IInv, OnTheWay, Known, BelievesRegistered
<1>7. QED
  BY <1>4, <1>5, <1>6 DEF IInv

(* A registered meter stays registered, and nothing else changes that      *)
(* registration depends on.                                                *)
LEMMA LaterStep ==
  ASSUME IInv,
         \/ \E m \in Meters : MeterListens(m) \/ MeterSessionEnds(m) \/ Contact(m)
         \/ BeginScript \/ EndScript \/ UNCHANGED headEndVars
  PROVE  IInv'
<1>1. UNCHANGED <<conns, server, meters, faults, broken, lost>>
  BY DEF MeterListens, MeterSessionEnds, Contact, BeginScript, EndScript,
     headEndVars, regs, history
<1>2. /\ mainPc' \in {mainPc, "pass", "asleep"} /\ raced' \in {raced, FALSE}
      /\ stopped' \in {stopped, TRUE}
      /\ visited' \in {visited, {}} \/ \E m \in Meters : visited' = visited \cup {m}
  <2>1. CASE \E m \in Meters : Contact(m)
    <3>1. PICK m \in Meters : Contact(m)
      BY <2>1
    <3>2. mainPc' = mainPc /\ raced' = raced /\ visited' = visited \cup {m}
      BY <3>1 DEF Contact
    <3>3. stopped' \in {stopped, TRUE}
      <4>1. CASE ~stopped /\ meterPc[m] = "listening"
        BY <3>1, <4>1 DEF Contact
      <4>2. CASE ~(~stopped /\ meterPc[m] = "listening")
        <5>1. stopped' \in {TRUE} \cup
                (IF meterPc[m] \in {"serving", "start"} THEN {stopped} ELSE {})
          BY <3>1, <4>2 DEF Contact
        <5>2. QED
          BY <5>1
      <4>3. QED
        BY <4>1, <4>2
    <3>4. QED
      BY <3>2, <3>3
  <2>2. CASE ~\E m \in Meters : Contact(m)
    BY <2>2 DEF MeterListens, MeterSessionEnds, BeginScript, EndScript, headEndVars, mainThread
  <2>3. QED
    BY <2>1, <2>2
<1>3. \/ meterPc' = meterPc
      \/ \E m \in Meters, label \in {"registered", "listening", "serving"} :
           BelievesRegistered(m) /\ MeterGoes(m, label)
  BY DEF MeterListens, MeterSessionEnds, Contact, BeginScript, EndScript,
     headEndVars, BelievesRegistered
<1>4. /\ meterPc' \in [Meters -> {"start", "connected", "registered", "listening", "serving"}]
      /\ \A d \in Meters : /\ BelievesRegistered(d)' => BelievesRegistered(d)
                           /\ meterPc'[d] = "connected" => meterPc[d] = "connected"
  BY <1>3 DEF IInv, Types, BelievesRegistered, MeterGoes
<1>5. visited' \subseteq Meters /\ raced' \in BOOLEAN /\ stopped' \in BOOLEAN
      /\ mainPc' \in {"asleep", "pass", "terminated"}
  BY <1>2 DEF IInv, Types
<1>6. Types'
  BY <1>1, <1>4, <1>5 DEF IInv, Types
<1>10. mainPc = "terminated" => mainPc' = "terminated"
  BY DEF MeterListens, MeterSessionEnds, Contact, BeginScript, EndScript, mainThread, headEndVars
<1>7. Queue'
  BY <1>1, <1>10 DEF IInv, Queue, ServerEndsByBrokenOne
<1>8. ASSUME NEW d \in Meters PROVE OnTheWay(d)'
  BY <1>1, <1>4 DEF IInv, OnTheWay, Known, Queued
<1>9. QED
  BY <1>6, <1>7, <1>8 DEF IInv
-----------------------------------------------------------------------------
LEMMA IInvInit == HeadEndInit => IInv
<1> SUFFICES ASSUME HeadEndInit PROVE IInv
  OBVIOUS
<1>1. Types
  <2>1. <<>> \in Seq(Connection) /\ 0 \in 0..MaxFaults
    BY EmptySeq, FaultsAssumption
  <2>2. QED
    BY <2>1 DEF HeadEndInit, Types
<1>2. Queue /\ \A m \in Meters : OnTheWay(m)
  BY DEF HeadEndInit, Queue, ServerEndsByBrokenOne, OnTheWay, BelievesRegistered
<1>3. QED
  BY <1>1, <1>2 DEF IInv

LEMMA IInvNext == IInv /\ [HeadEndNext]_headEndVars => IInv'
BY ConnectsStep, SendsRStep, FailsStep, AcceptStep, ReceiveStep, ProcessEndsStep, RestartStep,
   LaterStep
   DEF HeadEndNext, Meter, RegsThread, MainThread, Failure

LEMMA IInvHolds == HeadEndSpec => []IInv
BY IInvInit, IInvNext, PTL DEF HeadEndSpec

(* Types, and that receive() is only ever entered for a connection that    *)
(* is there.                                                               *)
THEOREM HeadEndTypeCorrect == HeadEndSpec => []HeadEndTypeOK
<1>1. IInv => HeadEndTypeOK
  BY DEF IInv, Types, Queue, HeadEndTypeOK
<1>2. QED
  BY <1>1, IInvHolds, PTL

(* regs() inserts the peer before it receives and takes connections in     *)
(* turn, so a meter that wrote its R is in `meters`, or behind others.     *)
THEOREM NoRegistrationIsLost == HeadEndSpec => []RegisteredIsKnownOrQueued
<1>1. ASSUME IInv PROVE RegisteredIsKnownOrQueued
  <2>1. DOMAIN conns = 1..Len(conns)
    BY <1>1, LenProperties DEF IInv, Types
  <2>2. QED
    BY <1>1, <2>1 DEF IInv, OnTheWay, Known, Queued, RegisteredIsKnownOrQueued
<1>2. QED
  BY <1>1, IInvHolds, PTL

(* do_accept() goes on after every connection it could serve: regs() ends  *)
(* with the process, or by a connection that broke before its R.           *)
THEOREM ServerSurvivesRegistrations == HeadEndSpec => []ServerEndsByBrokenOne
<1>1. IInv => ServerEndsByBrokenOne
  BY DEF IInv, Queue
<1>2. QED
  BY <1>1, IInvHolds, PTL
=============================================================================
