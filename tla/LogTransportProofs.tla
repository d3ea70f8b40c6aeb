------------------------ MODULE LogTransportProofs -------------------------
(***************************************************************************)
(* Proofs about LogTransport, for all sizes and bounds.                    *)
(*                                                                         *)
(* Types first, then the order of the lines and that none of them is lost. *)
(* Both rest on Way, the lines as they stand one behind the other on their *)
(* way: shown, on the connection, in run's hand, queued.  A step moves     *)
(* lines along it, puts one at its end, or drops some out of its middle.   *)
(***************************************************************************)
EXTENDS LogTransport, SequenceTheorems, FiniteSetTheorems, TLAPS

Sent == Lines \cup {Warning}
Batch == {s \in Seq(Sent) : Len(s) <= BatchSize}
Queued == {s \in Seq(Sent) : Len(s) <= QueueSize}

Places(x) == IF x = "run" THEN {"idle", "open", "drain", "pause", "done"}
                          ELSE {"off", "take", "open", "drain", "pause", "done"}

LinesTyped ==
    /\ written \in 0 .. MaxLines /\ refused \subseteq Lines
    /\ queue \in Queued
    /\ drops \in 0 .. written + 1

SendersTyped ==
    /\ at \in [Sender -> Places("run") \cup Places("stop")]
    /\ \A x \in Sender : at[x] \in Places(x)
    /\ hand \in [Sender -> Batch]
    /\ attempt \in [Sender -> 0 .. Tries - 1] /\ using \in [Sender -> 0 .. MaxConns]

Served(l) == {c \in Conns : l[c].master = "served"}

LinksTyped ==
    /\ conns \in 0 .. MaxConns /\ writer \in 0 .. conns
    /\ link \in [Conns -> Link]
    /\ \A c \in Conns : link[c].slave = "none" <=> c > conns
    /\ \A c \in Conns : link[c].slave = "none" => link[c].master = "none"
    /\ Cardinality(Served(link)) <= Workers

RestTyped ==
    /\ thief \in BOOLEAN /\ breaks \in 0 .. MaxBreaks
    /\ phase \in {"running", "failed", "cancelled", "ended"}
    /\ shown \in Seq(Lines)

\* The flush of stop begins when the slave no longer runs.
Lone ==
    /\ at["stop"] = "off" <=> phase = "running"
    /\ thief => phase # "running"

Typed == LinesTyped /\ SendersTyped /\ LinksTyped /\ RestTyped /\ Lone

LEMMA Sizes ==
    /\ QueueSize \in Nat \ {0} /\ BatchSize \in Nat \ {0} /\ Workers \in Nat \ {0}
    /\ SockBuf \in Nat /\ Others \in Nat /\ MaxLines \in Nat /\ MaxConns \in Nat /\ MaxBreaks \in Nat
BY SizesArePositive, BoundsAreNaturals

LEMMA MinOfTwo ==
    ASSUME NEW a \in Nat, NEW b \in Nat
    PROVE  Min({a, b}) \in Nat /\ Min({a, b}) <= a /\ Min({a, b}) <= b /\ Min({a, b}) \in {a, b}
<1>1. \E x \in {a, b} : \A y \in {a, b} : x <= y
  OBVIOUS
<1>. QED
  BY <1>1 DEF Min

LEMMA TypedSplit == Typed => TypeOK
<1> SUFFICES ASSUME Typed PROVE TypeOK
  OBVIOUS
<1>1. Range(queue) \subseteq Lines \cup {Warning} /\ Len(queue) <= QueueSize
  BY RangeOfSeq DEF Typed, LinesTyped, Queued, Sent
<1>2. drops \in 0 .. MaxLines + 1
  BY Sizes DEF Typed, LinesTyped
<1>3. \A x \in Sender : Len(hand[x]) <= BatchSize
  BY DEF Typed, SendersTyped, Batch
<1>4. at["run"] \in Places("run") /\ at["stop"] \in Places("stop")
  BY DEF Typed, SendersTyped, Sender
<1>. QED
  BY <1>1, <1>2, <1>3, <1>4 DEF Typed, LinesTyped, SendersTyped, LinksTyped, RestTyped, Served,
     Places, TypeOK

-----------------------------------------------------------------------------
(***************************************************************************)
(* The parts of a sender's step                                            *)
(***************************************************************************)
LEMMA Warnings ==
    ASSUME NEW n \in Nat
    PROVE  LET w == [i \in 1 .. n |-> Warning]
           IN  w \in Seq({Warning}) /\ w \in Seq(Sent) /\ Len(w) = n
<1>1. [i \in 1 .. n |-> Warning] \in Seq({Warning})
  OBVIOUS
<1>2. {Warning} \subseteq Sent
  BY DEF Sent
<1>. QED
  BY <1>1, <1>2, SeqMonotonic

\* At most two warnings, as far as there is room.
LEMMA WarningsFit ==
    ASSUME NEW q \in Queued, CheckAndWarnDrops(q), LinesTyped, UNCHANGED <<written, refused>>
    PROVE  /\ LinesTyped'
           /\ \E w \in Seq({Warning}) : queue' = q \o w
<1> USE Sizes
<1>1. drops' \in 0 .. written' + 1
  BY DEF CheckAndWarnDrops, LinesTyped
<1>2. CASE queue' = q
  <2>1. <<>> \in Seq({Warning}) /\ q = q \o <<>>
    BY ConcatEmptySeq, EmptySeq DEF Queued
  <2>. QED
    BY <1>1, <1>2, <2>1 DEF LinesTyped
<1>3. CASE queue' # q
  <2> DEFINE room == QueueSize - Len(q)
             w == [i \in 1 .. Min({room, 2}) |-> Warning]
  <2>1. queue' = q \o w
    BY <1>3 DEF CheckAndWarnDrops
  <2>2. room \in Nat /\ Min({room, 2}) \in Nat /\ Min({room, 2}) <= room
    <3>1. Len(q) \in Nat /\ Len(q) <= QueueSize
      BY LenProperties DEF Queued
    <3> QED BY <3>1, MinOfTwo
  <2>3. w \in Seq({Warning}) /\ w \in Seq(Sent) /\ Len(w) <= room
    <3> HIDE DEF room
    <3> QED BY <2>2, Warnings
  <2>4. Len(q \o w) = Len(q) + Len(w) /\ q \o w \in Seq(Sent)
    <3> HIDE DEF w
    <3> QED BY <2>3, ConcatProperties DEF Queued
  <2>5. Len(w) \in Nat /\ Len(q) \in Nat
    BY <2>3, LenProperties DEF Queued
  <2>6. q \o w \in Queued
    <3> HIDE DEF w
    <3> QED BY <2>3, <2>4, <2>5 DEF Queued
  <2> HIDE DEF w
  <2>. QED
    BY <1>1, <2>1, <2>3, <2>6 DEF LinesTyped
<1>. QED
  BY <1>2, <1>3

LEMMA HoldsTyped ==
    ASSUME SendersTyped, NEW x \in Sender, NEW place \in Places(x), NEW lines \in Batch,
           NEW failed \in 0 .. Tries - 1, NEW c \in 0 .. MaxConns,
           Holds(x, place, lines, failed, c)
    PROVE  /\ SendersTyped'
           /\ at'[x] = place /\ hand'[x] = lines /\ using'[x] = c
           /\ \A y \in Sender \ {x} : at'[y] = at[y] /\ hand'[y] = hand[y] /\ using'[y] = using[y]
<1>1. place \in Places("run") \cup Places("stop")
  BY DEF Places
<1>. QED
  BY <1>1 DEF SendersTyped, Holds

LEMMA NothingTyped == <<>> \in Batch /\ <<>> \in Queued /\ <<>> \in Seq(Sent)
BY EmptySeq, Sizes DEF Batch, Queued

\* _send_lines has returned.
LEMMA ReturnsTyped ==
    ASSUME LinesTyped, SendersTyped, NEW x \in Sender, NEW q \in Queued, Returns(x, q),
           UNCHANGED <<written, refused>>
    PROVE  /\ LinesTyped' /\ SendersTyped'
           /\ at'[x] = (IF x = "run" THEN "idle" ELSE "take") /\ hand'[x] = <<>>
           /\ \A y \in Sender \ {x} : at'[y] = at[y] /\ hand'[y] = hand[y] /\ using'[y] = using[y]
           /\ \E w \in Seq({Warning}) : queue' = q \o w
<1>1. /\ SendersTyped'
      /\ at'[x] = (IF x = "run" THEN "idle" ELSE "take") /\ hand'[x] = <<>>
      /\ \A y \in Sender \ {x} : at'[y] = at[y] /\ hand'[y] = hand[y] /\ using'[y] = using[y]
  <2> DEFINE place == IF x = "run" THEN "idle" ELSE "take"
  <2>1. place \in Places(x)
    BY DEF Places
  <2>2. 0 \in 0 .. Tries - 1 /\ 0 \in 0 .. MaxConns
    BY Sizes DEF Tries
  <2>3. Holds(x, place, <<>>, 0, 0)
    BY DEF Returns
  <2> HIDE DEF place
  <2>4. SendersTyped' /\ at'[x] = place /\ hand'[x] = <<>>
      /\ \A y \in Sender \ {x} : at'[y] = at[y] /\ hand'[y] = hand[y] /\ using'[y] = using[y]
    BY <2>1, <2>2, <2>3, NothingTyped, HoldsTyped
  <2> QED BY <2>4 DEF place
<1>2. CASE x = "run"
  BY <1>1, <1>2, WarningsFit DEF Returns
<1>3. CASE x # "run"
  <2>1. queue' = q /\ UNCHANGED drops
    BY <1>3 DEF Returns, Queues
  <2>2. <<>> \in Seq({Warning}) /\ q = q \o <<>>
    BY ConcatEmptySeq, EmptySeq DEF Queued
  <2>. QED
    BY <1>1, <2>1, <2>2 DEF LinesTyped
<1>. QED
  BY <1>2, <1>3

LEMMA LoneKept ==
    ASSUME Typed, NEW x \in Sender, at[x] # "off", at'[x] # "off",
           \A y \in Sender \ {x} : at'[y] = at[y],
           UNCHANGED <<phase, thief>>
    PROVE  Lone'
BY DEF Typed, Lone, Sender

\* No more connections are served than before.
LEMMA ServedStay ==
    ASSUME NEW l, NEW k, \A c \in Conns : k[c].master = "served" => l[c].master = "served",
           Cardinality(Served(l)) <= Workers
    PROVE  Cardinality(Served(k)) <= Workers
<1>1. Served(k) \subseteq Served(l)
  BY DEF Served
<1>2. IsFiniteSet(Served(l))
  <2>1. IsFiniteSet(Conns)
    BY FS_Interval, Sizes DEF Conns
  <2>2. Served(l) \subseteq Conns
    BY DEF Served
  <2> QED BY <2>1, <2>2, FS_Subset
<1>3. Cardinality(Served(k)) <= Cardinality(Served(l)) /\ Cardinality(Served(k)) \in Nat
      /\ Cardinality(Served(l)) \in Nat
  BY <1>1, <1>2, FS_Subset, FS_CardinalityType
<1>. QED
  BY <1>3, Sizes

\* One connection changes.
LEMMA OneLink ==
    ASSUME LinksTyped, NEW c \in 1 .. conns, NEW l \in Link, l.slave # "none",
           l.master = "served" => link[c].master = "served",
           link' = [link EXCEPT ![c] = l], conns' = conns, writer' \in 0 .. conns
    PROVE  LinksTyped'
<1>1. c \in Conns
  BY Sizes DEF Conns, LinksTyped
<1>2. link' \in [Conns -> Link]
  BY <1>1 DEF LinksTyped
<1>3. \A d \in Conns : link'[d] = IF d = c THEN l ELSE link[d]
  BY <1>1 DEF LinksTyped
<1>4. \A d \in Conns : link'[d].slave = "none" <=> d > conns
  <2> SUFFICES ASSUME NEW d \in Conns PROVE link'[d].slave = "none" <=> d > conns
    OBVIOUS
  <2>1. CASE d = c
    BY <1>3, <2>1, Sizes DEF LinksTyped
  <2>2. CASE d # c
    BY <1>3, <2>2 DEF LinksTyped
  <2> QED BY <2>1, <2>2
<1>5. \A d \in Conns : link'[d].master = "served" => link[d].master = "served"
  BY <1>3
<1>6. Cardinality(Served(link')) <= Workers
  BY <1>5, ServedStay DEF LinksTyped
<1>7. \A d \in Conns : link'[d].slave = "none" => link'[d].master = "none"
  BY <1>3 DEF LinksTyped
<1>. QED
  BY <1>2, <1>4, <1>6, <1>7 DEF LinksTyped, Served

\* A connection the slave has made is one of those there are.
LEMMA MadeIsThere ==
    ASSUME LinksTyped, NEW c \in Conns, link[c].slave # "none"
    PROVE  c \in 1 .. conns
BY Sizes DEF LinksTyped, Conns

LEMMA WriterIsThere ==
    ASSUME LinksTyped, writer # 0
    PROVE  writer \in 1 .. conns /\ writer \in Conns /\ link[writer] \in Link
           /\ link[writer].slave # "none" /\ link[writer].data \in Seq(Sent)
<1>1. writer \in 1 .. conns /\ writer \in Conns /\ link[writer] \in Link
  BY Sizes DEF LinksTyped, Conns
<1>2. link[writer].slave # "none"
  BY <1>1, Sizes DEF LinksTyped, Conns
<1>3. link[writer].data \in Seq(Sent)
  BY <1>1 DEF Link, Sent
<1>. QED
  BY <1>1, <1>2, <1>3

LEMMA FailsTyped ==
    ASSUME Typed, NEW x \in Sender, at[x] # "off", NEW lines \in Batch, NEW q \in Queued,
           Fails(x, lines, q),
           UNCHANGED <<written, refused, conns, link, thief, phase, shown, breaks>>
    PROVE  Typed'
<1>1. LinksTyped'
  <2>1. Served(link') = Served(link)
    BY DEF Served
  <2> QED BY <2>1, Sizes DEF Typed, LinksTyped, Fails
<1>2. RestTyped'
  BY DEF Typed, RestTyped
<1>3. CASE attempt[x] + 1 < Tries
  <2>1. Holds(x, "pause", lines, attempt[x] + 1, 0) /\ queue' = q /\ UNCHANGED drops
    BY <1>3 DEF Fails, Queues
  <2>2. /\ "pause" \in Places(x)
        /\ attempt[x] + 1 \in 0 .. Tries - 1 /\ 0 \in 0 .. MaxConns
    BY <1>3, Sizes DEF Places, Typed, SendersTyped, Tries
  <2>3. SendersTyped' /\ at'[x] = "pause" /\ \A y \in Sender \ {x} : at'[y] = at[y]
    BY <2>1, <2>2, HoldsTyped DEF Typed
  <2>4. Lone'
    BY <2>3, LoneKept
  <2>. QED
    BY <1>1, <1>2, <2>1, <2>3, <2>4 DEF Typed, LinesTyped
<1>4. CASE ~(attempt[x] + 1 < Tries)
  <2>1. Returns(x, q)
    BY <1>4 DEF Fails
  <2>2. LinesTyped' /\ SendersTyped' /\ at'[x] \in {"idle", "take"}
        /\ \A y \in Sender \ {x} : at'[y] = at[y]
    BY <2>1, ReturnsTyped DEF Typed, LinesTyped
  <2>3. Lone'
    BY <2>2, LoneKept
  <2>. QED
    BY <1>1, <1>2, <2>2, <2>3 DEF Typed
<1>. QED
  BY <1>3, <1>4

\* What is done with the lines at hand, by the state of the connection.
WritesOn(x, lines, q) ==
    /\ writer # 0 /\ link[writer].slave = "open"
    /\ link' = [link EXCEPT ![writer] = [link[writer] EXCEPT !.data = @ \o lines]]
    /\ \/ Returns(x, q)
       \/ Holds(x, "drain", lines, attempt[x], writer) /\ queue' = q /\ UNCHANGED drops
    /\ UNCHANGED <<writer, gaveUp>>

WritesOnEnded(x, q) ==
    /\ writer # 0 /\ link[writer].slave = "eof"
    /\ link' = [link EXCEPT ![writer] = [link[writer] EXCEPT !.slave = "reset"]]
    /\ Returns(x, q) /\ lost' = TRUE
    /\ UNCHANGED <<writer, gaveUp>>

FindsOut(x, lines, q) ==
    /\ writer # 0 /\ link[writer].slave = "reset"
    /\ Fails(x, lines, q)
    /\ UNCHANGED link

WantsAnother(x, lines, q) ==
    /\ writer = 0 \/ link[writer].slave \in {"reset", "left"}
    /\ Holds(x, "open", lines, attempt[x], 0)
    /\ writer' = 0 /\ queue' = q
    /\ UNCHANGED <<link, drops, gaveUp>>

LEMMA AttemptSplit ==
    ASSUME LinksTyped, NEW x, NEW lines, NEW q, Attempt(x, lines, q)
    PROVE  WritesOn(x, lines, q) \/ WritesOnEnded(x, q) \/ FindsOut(x, lines, q)
           \/ WantsAnother(x, lines, q)
<1> DEFINE end == IF writer = 0 THEN "none" ELSE link[writer].slave
<1>1. CASE /\ end = "open"
           /\ link' = [link EXCEPT ![writer].data = @ \o lines]
           /\ \/ Returns(x, q)
              \/ Holds(x, "drain", lines, attempt[x], writer) /\ queue' = q /\ UNCHANGED drops
           /\ UNCHANGED <<writer, gaveUp>>
  BY <1>1 DEF WritesOn
<1>2. CASE /\ end = "eof"
           /\ link' = [link EXCEPT ![writer].slave = "reset"]
           /\ Returns(x, q)
           /\ lost' = TRUE
           /\ UNCHANGED <<writer, gaveUp>>
  BY <1>2 DEF WritesOnEnded
<1>4. CASE end = "reset" /\ Fails(x, lines, q) /\ UNCHANGED link
  BY <1>4 DEF FindsOut
<1>3. CASE /\ end \in {"none", "reset", "left"}
           /\ Holds(x, "open", lines, attempt[x], 0)
           /\ writer' = 0 /\ queue' = q
           /\ UNCHANGED <<link, drops, gaveUp>>
  <2>1. writer # 0 => link[writer].slave # "none"
    BY WriterIsThere
  <2> QED BY <1>3, <2>1 DEF WantsAnother
<1>. QED
  BY <1>1, <1>2, <1>3, <1>4 DEF Attempt, Queues

LEMMA AttemptTyped ==
    ASSUME Typed, NEW x \in Sender, at[x] # "off", NEW lines \in Batch, NEW q \in Queued,
           Attempt(x, lines, q),
           UNCHANGED <<written, refused, conns, thief, phase, shown, breaks>>
    PROVE  Typed'
<1>0. RestTyped'
  BY DEF Typed, RestTyped
<1>a. attempt[x] \in 0 .. Tries - 1 /\ 0 \in 0 .. MaxConns /\ writer \in 0 .. MaxConns
      /\ "drain" \in Places(x) /\ "open" \in Places(x) /\ lines \in Seq(Sent)
  BY Sizes DEF Typed, SendersTyped, LinksTyped, Places, Batch
<1>1. CASE WritesOn(x, lines, q)
  <2> DEFINE l == [link[writer] EXCEPT !.data = @ \o lines]
  <2>1. writer \in 1 .. conns /\ link[writer] \in Link /\ link[writer].data \in Seq(Sent)
    BY <1>1, WriterIsThere DEF WritesOn, Typed
  <2>2. l \in Link /\ l.slave = "open" /\ l.master = link[writer].master
    <3>1. link[writer].data \o lines \in Seq(Sent)
      BY <1>a, <2>1, ConcatProperties
    <3>2. \A k \in Link, s \in Seq(Sent) : [k EXCEPT !.data = s] \in Link
          /\ [k EXCEPT !.data = s].slave = k.slave /\ [k EXCEPT !.data = s].master = k.master
      BY DEF Link, Sent
    <3> QED BY <1>1, <2>1, <3>1, <3>2 DEF WritesOn
  <2>3. link' = [link EXCEPT ![writer] = l] /\ writer' \in 0 .. conns
    BY <1>1 DEF WritesOn, Typed, LinksTyped
  <2> HIDE DEF l
  <2>4. LinksTyped'
    BY <2>1, <2>2, <2>3, OneLink DEF Typed
  <2>5. LinesTyped' /\ SendersTyped' /\ at'[x] # "off" /\ \A y \in Sender \ {x} : at'[y] = at[y]
    <3>1. CASE Returns(x, q)
      BY <3>1, ReturnsTyped DEF Typed
    <3>2. CASE Holds(x, "drain", lines, attempt[x], writer) /\ queue' = q /\ UNCHANGED drops
      <4>1. SendersTyped' /\ at'[x] = "drain" /\ \A y \in Sender \ {x} : at'[y] = at[y]
        BY <1>a, <3>2, HoldsTyped DEF Typed
      <4> QED BY <3>2, <4>1 DEF Typed, LinesTyped
    <3> QED BY <1>1, <3>1, <3>2 DEF WritesOn
  <2>6. Lone'
    BY <2>5, LoneKept
  <2> QED BY <1>0, <2>4, <2>5, <2>6 DEF Typed
<1>2. CASE WritesOnEnded(x, q)
  <2> DEFINE l == [link[writer] EXCEPT !.slave = "reset"]
  <2>1. writer \in 1 .. conns /\ link[writer] \in Link
    BY <1>2, WriterIsThere DEF WritesOnEnded, Typed
  <2>2. l \in Link /\ l.slave = "reset" /\ l.master = link[writer].master
    <3>1. \A k \in Link : [k EXCEPT !.slave = "reset"] \in Link
          /\ [k EXCEPT !.slave = "reset"].slave = "reset"
          /\ [k EXCEPT !.slave = "reset"].master = k.master
      BY DEF Link
    <3> QED BY <2>1, <3>1
  <2>3. link' = [link EXCEPT ![writer] = l] /\ writer' \in 0 .. conns
    BY <1>2 DEF WritesOnEnded, Typed, LinksTyped
  <2> HIDE DEF l
  <2>4. LinksTyped'
    BY <2>1, <2>2, <2>3, OneLink DEF Typed
  <2>5. LinesTyped' /\ SendersTyped' /\ at'[x] \in {"idle", "take"}
        /\ \A y \in Sender \ {x} : at'[y] = at[y]
    BY <1>2, ReturnsTyped DEF Typed, WritesOnEnded
  <2>6. Lone'
    BY <2>5, LoneKept
  <2> QED BY <1>0, <2>4, <2>5, <2>6 DEF Typed
<1>3. CASE WantsAnother(x, lines, q)
  <2>1. SendersTyped' /\ at'[x] = "open" /\ \A y \in Sender \ {x} : at'[y] = at[y]
    BY <1>a, <1>3, HoldsTyped DEF Typed, WantsAnother
  <2>2. Lone'
    BY <2>1, LoneKept
  <2>3. LinksTyped'
    <3>1. Served(link') = Served(link)
      BY <1>3 DEF Served, WantsAnother
    <3> QED BY <1>3, <3>1, Sizes DEF Typed, LinksTyped, WantsAnother
  <2> QED BY <1>0, <1>3, <2>1, <2>2, <2>3 DEF Typed, LinesTyped, WantsAnother
<1>4. CASE FindsOut(x, lines, q)
  BY <1>4, FailsTyped DEF FindsOut
<1>. QED
  BY <1>1, <1>2, <1>3, <1>4, AttemptSplit DEF Typed

-----------------------------------------------------------------------------
(***************************************************************************)
(* The steps of the senders                                                *)
(***************************************************************************)
\* A batch and what stays behind are the queue.
LEMMA BatchTaken ==
    ASSUME queue \in Queued, queue # <<>>
    PROVE  LET n == Min({BatchSize, Len(queue)})
               lines == SubSeq(queue, 1, n)
               q == SubSeq(queue, n + 1, Len(queue))
           IN  lines \in Batch /\ q \in Queued /\ lines \o q = queue
<1> DEFINE n == Min({BatchSize, Len(queue)})
           lines == SubSeq(queue, 1, n)
           q == SubSeq(queue, n + 1, Len(queue))
<1>1. queue \in Seq(Sent) /\ Len(queue) \in Nat /\ Len(queue) <= QueueSize
  BY LenProperties DEF Queued
<1>2. n \in 0 .. Len(queue) /\ n <= BatchSize
  BY <1>1, MinOfTwo, Sizes
<1> HIDE DEF n
<1>3. lines \in Seq(Sent) /\ Len(lines) = n
  <2>1. \A i \in 1 .. n : queue[i] \in Sent
    BY <1>1, <1>2, ElementOfSeq
  <2> QED BY <1>2, <2>1, SubSeqProperties
<1>4. q \in Seq(Sent) /\ Len(q) = Len(queue) - n
  <2>1. \A i \in n + 1 .. Len(queue) : queue[i] \in Sent
    BY <1>1, <1>2, ElementOfSeq
  <2>2. n + 1 \in Int /\ Len(queue) \in Int
    BY <1>1, <1>2
  <2>3. q \in Seq(Sent) /\ Len(q) = IF n + 1 <= Len(queue) THEN Len(queue) - (n + 1) + 1 ELSE 0
    BY <2>1, <2>2, SubSeqProperties
  <2> QED BY <1>1, <1>2, <2>3
<1>5. lines \o q = SubSeq(queue, 1, Len(queue))
  <2>1. 1 \in 1 .. Len(queue) + 1 /\ n \in 1 - 1 .. Len(queue) /\ Len(queue) \in n .. Len(queue)
    BY <1>1, <1>2
  <2> QED BY <1>1, <2>1, ConcatAdjacentSubSeq
<1>6. lines \o q = queue
  BY <1>1, <1>5, SubSeqFull
<1>7. lines \in Batch /\ q \in Queued
  <2> HIDE DEF lines, q
  <2> QED BY <1>1, <1>2, <1>3, <1>4, Sizes DEF Batch, Queued
<1>. QED
  BY <1>6, <1>7 DEF n

LEMMA TakeTyped ==
    ASSUME Typed, NEW x \in Sender, Take(x)
    PROVE  Typed'
<1> DEFINE n == Min({BatchSize, Len(queue)})
           lines == SubSeq(queue, 1, n)
           q == SubSeq(queue, n + 1, Len(queue))
<1>1. queue \in Queued /\ queue # <<>> /\ at[x] # "off"
  BY DEF Take, Typed, LinesTyped
<1>2. lines \in Batch /\ q \in Queued
  BY <1>1, BatchTaken
<1>3. Attempt(x, lines, q) /\ UNCHANGED <<written, refused, conns, thief, phase, shown, breaks>>
  BY DEF Take, history
<1> HIDE DEF lines, q
<1>. QED
  BY <1>1, <1>2, <1>3, AttemptTyped

LEMMA RetryTyped ==
    ASSUME Typed, NEW x \in Sender, Retry(x)
    PROVE  Typed'
<1>1. hand[x] \in Batch /\ queue \in Queued /\ at[x] # "off"
  BY DEF Retry, Typed, SendersTyped, LinesTyped
<1>2. Attempt(x, hand[x], queue)
      /\ UNCHANGED <<written, refused, conns, thief, phase, shown, breaks>>
  BY DEF Retry, history
<1>. QED
  BY <1>1, <1>2, AttemptTyped

\* The new connection.
New(lines) == [slave |-> "open", master |-> "queued", data |-> lines]

LEMMA OpenTyped ==
    ASSUME Typed, NEW x \in Sender, Open(x)
    PROVE  Typed'
<1>0. RestTyped'
  BY DEF Typed, RestTyped, Open, history
<1>1. /\ conns' = conns + 1 /\ writer' = conns + 1 /\ conns + 1 \in Conns
      /\ conns' \in 0 .. MaxConns
      /\ link' = [link EXCEPT ![conns + 1] = New(hand[x])]
  BY Sizes DEF Open, New, Typed, LinksTyped, Conns
<1>2. hand[x] \in Batch /\ hand[x] \in Seq(Sent) /\ attempt[x] \in 0 .. Tries - 1
      /\ "drain" \in Places(x) /\ queue \in Queued
  BY DEF Typed, SendersTyped, LinesTyped, Batch, Places
<1>3. New(hand[x]) \in Link /\ New(hand[x]).slave = "open" /\ New(hand[x]).master = "queued"
  BY <1>2 DEF New, Link, Sent
<1>4. LinksTyped'
  <2> DEFINE l == New(hand[x])
  <2> HIDE DEF l
  <2>1. l \in Link /\ l.slave = "open" /\ l.master = "queued"
    BY <1>3 DEF l
  <2>2. link' = [link EXCEPT ![conns + 1] = l]
    BY <1>1 DEF l
  <2>3. link' \in [Conns -> Link]
    BY <1>1, <2>1, <2>2 DEF Typed, LinksTyped
  <2>4. \A d \in Conns : link'[d] = IF d = conns + 1 THEN l ELSE link[d]
    BY <1>1, <2>2 DEF Typed, LinksTyped
  <2>5. \A d \in Conns : link'[d].slave = "none" <=> d > conns'
    BY <1>1, <2>1, <2>4, Sizes DEF Typed, LinksTyped, Conns
  <2>6. \A d \in Conns : link'[d].master = "served" => link[d].master = "served"
    BY <2>1, <2>4
  <2>7. Cardinality(Served(link')) <= Workers
    BY <2>6, ServedStay DEF Typed, LinksTyped
  <2>8. \A d \in Conns : link'[d].slave = "none" => link'[d].master = "none"
    BY <2>1, <2>4 DEF Typed, LinksTyped
  <2> QED BY <1>1, <2>3, <2>5, <2>7, <2>8, Sizes DEF Typed, LinksTyped, Served
<1>5. LinesTyped' /\ SendersTyped' /\ at'[x] # "off" /\ \A y \in Sender \ {x} : at'[y] = at[y]
  <2>1. UNCHANGED <<written, refused>>
    BY DEF Open
  <2>2. CASE Returns(x, queue)
    BY <1>2, <2>1, <2>2, ReturnsTyped DEF Typed
  <2>3. CASE Holds(x, "drain", hand[x], attempt[x], conns') /\ queue' = queue /\ UNCHANGED drops
    <3>1. SendersTyped' /\ at'[x] = "drain" /\ \A y \in Sender \ {x} : at'[y] = at[y]
      BY <1>1, <1>2, <2>3, HoldsTyped DEF Typed
    <3> QED BY <2>1, <2>3, <3>1 DEF Typed, LinesTyped
  <2> QED BY <2>2, <2>3 DEF Open, Queues
<1>6. Lone'
  BY <1>5, LoneKept DEF Open
<1>. QED
  BY <1>0, <1>4, <1>5, <1>6 DEF Typed

LEMMA OpenFailsTyped ==
    ASSUME Typed, NEW x \in Sender, OpenFails(x)
    PROVE  Typed'
<1>1. hand[x] \in Batch /\ queue \in Queued
  BY DEF Typed, SendersTyped, LinesTyped
<1>. QED
  BY <1>1, FailsTyped DEF OpenFails

LEMMA DrainTyped ==
    ASSUME Typed, NEW x \in Sender, Drain(x)
    PROVE  Typed'
<1>0. hand[x] \in Batch /\ queue \in Queued
  BY DEF Typed, SendersTyped, LinesTyped
<1>1. CASE Fails(x, hand[x], queue)
  BY <1>0, <1>1, FailsTyped DEF Drain
<1>2. CASE Returns(x, queue) /\ UNCHANGED <<writer, gaveUp>>
  <2>1. LinesTyped' /\ SendersTyped' /\ at'[x] \in {"idle", "take"}
        /\ \A y \in Sender \ {x} : at'[y] = at[y]
    BY <1>2, ReturnsTyped DEF Drain, Typed, LinesTyped
  <2>2. Lone'
    BY <2>1, LoneKept DEF Drain
  <2>3. LinksTyped'
    <3>1. Served(link') = Served(link)
      BY DEF Served, Drain
    <3> QED BY <1>2, <3>1, Sizes DEF Drain, Typed, LinksTyped
  <2>4. RestTyped'
    BY DEF Drain, Typed, RestTyped
  <2> QED BY <2>1, <2>2, <2>3, <2>4 DEF Typed
<1>. QED
  BY <1>1, <1>2 DEF Drain

LEMMA SenderTyped ==
    ASSUME Typed, NEW x \in Sender, SenderStep(x)
    PROVE  Typed'
BY TakeTyped, RetryTyped, OpenTyped, OpenFailsTyped, DrainTyped DEF SenderStep

-----------------------------------------------------------------------------
(***************************************************************************)
(* The other steps                                                         *)
(***************************************************************************)
LEMMA WriteTyped ==
    ASSUME Typed, WriteLine
    PROVE  Typed'
<1> USE Sizes
<1>1. written' = written + 1 /\ written' \in Lines /\ written' \in 0 .. MaxLines
  BY DEF WriteLine, Typed, LinesTyped, Lines
<1>2. drops' \in 0 .. written' + 1
  BY <1>1 DEF WriteLine, Typed, LinesTyped
<1>3. queue' \in Queued /\ refused' \subseteq Lines
  <2>1. CASE Len(queue) < QueueSize
    <3>1. queue \in Seq(Sent) /\ Len(queue) \in Nat /\ written' \in Sent
      BY <1>1, LenProperties DEF Typed, LinesTyped, Queued, Sent
    <3>2. queue' = Append(queue, written') /\ refused' = refused
      BY <2>1 DEF WriteLine
    <3>3. queue' \in Seq(Sent) /\ Len(queue') = Len(queue) + 1
      BY <3>1, <3>2, AppendProperties
    <3>4. queue' \in Queued
      BY <2>1, <3>1, <3>3 DEF Queued
    <3> QED BY <3>2, <3>4 DEF Typed, LinesTyped
  <2>2. CASE ~(Len(queue) < QueueSize)
    BY <1>1, <2>2 DEF WriteLine, Typed, LinesTyped
  <2> QED BY <2>1, <2>2
<1>4. LinesTyped'
  BY <1>1, <1>2, <1>3 DEF LinesTyped
<1>. QED
  BY <1>4 DEF WriteLine, sendVars, history, Typed, SendersTyped, LinksTyped, Served, RestTyped, Lone

LEMMA EndsTyped ==
    ASSUME Typed, ServiceFails \/ Cancelled \/ RunEnds
    PROVE  Typed'
<1>1. LinesTyped'
  BY DEF ServiceFails, Cancelled, RunEnds, lineVars, Typed, LinesTyped
<1>2. LinksTyped'
  BY DEF ServiceFails, Cancelled, RunEnds, Typed, LinksTyped, Served
<1>3. RestTyped'
  BY DEF ServiceFails, Cancelled, RunEnds, history, Typed, RestTyped
<1>4. SendersTyped' /\ Lone'
  <2>1. CASE ServiceFails
    BY <2>1 DEF ServiceFails, Typed, SendersTyped, Lone, Sender, Places
  <2>2. CASE RunEnds
    BY <2>2 DEF RunEnds, Typed, SendersTyped, Lone, Sender, Places
  <2>3. CASE Cancelled
    <3>0. at["stop"] \in Places("stop") /\ phase \in {"running", "failed"}
      BY <2>3 DEF Cancelled, Typed, SendersTyped, Sender
    <3>1. at'["run"] = "done" /\ at'["stop"] \in Places("stop") /\ at'["stop"] # "off"
          /\ phase' = "cancelled" /\ at' \in [Sender -> Places("run") \cup Places("stop")]
      BY <2>3, <3>0 DEF Cancelled, Sender, Places, Typed, Lone
    <3>2. hand' \in [Sender -> Batch]
      BY <2>3, NothingTyped DEF Cancelled, Typed, SendersTyped
    <3>3. attempt' \in [Sender -> 0 .. Tries - 1] /\ using' \in [Sender -> 0 .. MaxConns]
      <4>1. 0 \in 0 .. Tries - 1 /\ 0 \in 0 .. MaxConns
        BY Sizes DEF Tries
      <4>2. attempt' = [attempt EXCEPT !["run"] = 0] /\ using' = [using EXCEPT !["run"] = 0]
        BY <2>3 DEF Cancelled
      <4> QED BY <4>1, <4>2 DEF Typed, SendersTyped
    <3>4. \A x \in Sender : at'[x] \in Places(x)
      BY <3>1 DEF Sender, Places
    <3> QED BY <3>1, <3>2, <3>3, <3>4 DEF SendersTyped, Lone
  <2> QED BY <2>1, <2>2, <2>3
<1>. QED
  BY <1>1, <1>2, <1>3, <1>4 DEF Typed

LEMMA ThiefTyped ==
    ASSUME Typed, ThiefEnds
    PROVE  Typed'
<1>1. queue' \in Queued
  <2>1. CASE queue' = queue
    BY <2>1 DEF Typed, LinesTyped
  <2>2. CASE queue # <<>> /\ queue' = Tail(queue)
    <3>1. queue \in Seq(Sent) /\ Len(queue) \in Nat /\ Len(queue) <= QueueSize
      BY LenProperties DEF Typed, LinesTyped, Queued
    <3>2. Tail(queue) \in Seq(Sent) /\ Len(Tail(queue)) = Len(queue) - 1
      BY <2>2, <3>1, HeadTailProperties
    <3> QED BY <2>2, <3>1, <3>2, Sizes DEF Queued
  <2> QED BY <2>1, <2>2 DEF ThiefEnds
<1>. QED
  BY <1>1 DEF ThiefEnds, sendVars, history, Typed, LinesTyped, SendersTyped, LinksTyped, Served,
     RestTyped, Lone

LEMMA StopEndsTyped ==
    ASSUME Typed, StopEnds
    PROVE  Typed'
<1>1. LinesTyped'
  BY DEF StopEnds, lineVars, Typed, LinesTyped
<1>2. RestTyped' /\ Lone'
  BY DEF StopEnds, history, Typed, RestTyped, Lone, Sender
<1>3. SendersTyped'
  <2>1. \A x \in Sender : at'[x] = "done" /\ at'[x] \in Places(x)
    BY DEF StopEnds, Places
  <2>2. at' \in [Sender -> Places("run") \cup Places("stop")] /\ hand' \in [Sender -> Batch]
    BY NothingTyped DEF StopEnds, Places
  <2>3. attempt' \in [Sender -> 0 .. Tries - 1] /\ using' \in [Sender -> 0 .. MaxConns]
    BY Sizes DEF StopEnds, Tries
  <2> QED BY <2>1, <2>2, <2>3 DEF SendersTyped
<1>4. LinksTyped'
  <2>0. writer' \in 0 .. conns /\ conns' = conns
    BY DEF StopEnds, Typed, LinksTyped
  <2>1. CASE writer = 0
    BY <2>0, <2>1 DEF StopEnds, Typed, LinksTyped, Served
  <2>2. CASE writer # 0
    <3> DEFINE l == [link[writer] EXCEPT !.slave = "left"]
    <3>1. writer \in 1 .. conns /\ link[writer] \in Link
      BY <2>2, WriterIsThere DEF Typed
    <3>2. l \in Link /\ l.slave = "left" /\ l.master = link[writer].master
      <4>1. \A k \in Link : [k EXCEPT !.slave = "left"] \in Link
            /\ [k EXCEPT !.slave = "left"].slave = "left"
            /\ [k EXCEPT !.slave = "left"].master = k.master
        BY DEF Link
      <4> QED BY <3>1, <4>1
    <3>3. link' = [link EXCEPT ![writer] = l]
      BY <2>2 DEF StopEnds
    <3> HIDE DEF l
    <3> QED BY <2>0, <3>1, <3>2, <3>3, OneLink DEF Typed
  <2> QED BY <2>1, <2>2
<1>. QED
  BY <1>1, <1>2, <1>3, <1>4 DEF Typed

LEMMA AbandonedTyped ==
    ASSUME NEW l \in Link, NEW n \in Nat
    PROVE  /\ Abandoned(l, n) \in Link /\ Abandoned(l, n).master = l.master
           /\ Abandoned(l, n).slave = IF l.slave = "open" THEN "left" ELSE l.slave
<1>1. CASE l.slave = "open"
  <2> DEFINE s == SubSeq(l.data, 1, Min({n, Len(l.data)}))
  <2>1. s \in Seq(Sent)
    <3>1. l.data \in Seq(Sent) /\ Len(l.data) \in Nat
      BY LenProperties DEF Link, Sent
    <3>2. Min({n, Len(l.data)}) \in 0 .. Len(l.data)
      BY <3>1, MinOfTwo
    <3> DEFINE m == Min({n, Len(l.data)})
    <3> HIDE DEF m
    <3>3. m \in 0 .. Len(l.data)
      BY <3>2 DEF m
    <3>4. \A i \in 1 .. m : l.data[i] \in Sent
      BY <3>1, <3>3, ElementOfSeq
    <3>5. SubSeq(l.data, 1, m) \in Seq(Sent)
      BY <3>1, <3>3, <3>4, SubSeqProperties
    <3> QED BY <3>5 DEF m
  <2>2. Abandoned(l, n) = [l EXCEPT !.slave = "left", !.data = s]
    BY <1>1 DEF Abandoned
  <2> HIDE DEF s
  <2> QED BY <1>1, <2>1, <2>2 DEF Link, Sent
<1>2. CASE l.slave # "open"
  BY <1>2 DEF Abandoned
<1>. QED
  BY <1>1, <1>2

LEMMA ExitTyped ==
    ASSUME Typed, ProcessExits
    PROVE  Typed'
<1>1. LinesTyped'
  BY DEF ProcessExits, lineVars, Typed, LinesTyped
<1>2. RestTyped' /\ Lone'
  BY DEF ProcessExits, history, Typed, RestTyped, Lone, Sender
<1>3. SendersTyped'
  <2>1. \A x \in Sender : at'[x] = "done" /\ at'[x] \in Places(x)
    BY DEF ProcessExits, Places
  <2>2. at' \in [Sender -> Places("run") \cup Places("stop")] /\ hand' \in [Sender -> Batch]
    BY NothingTyped DEF ProcessExits, Places
  <2>3. attempt' \in [Sender -> 0 .. Tries - 1] /\ using' \in [Sender -> 0 .. MaxConns]
    BY Sizes DEF ProcessExits, Tries
  <2> QED BY <2>1, <2>2, <2>3 DEF SendersTyped
<1>4. LinksTyped'
  <2>1. PICK n \in 0 .. SockBuf : link' = [c \in Conns |-> Abandoned(link[c], n)]
    BY DEF ProcessExits
  <2>2. n \in Nat /\ writer' = 0 /\ conns' = conns
    BY Sizes DEF ProcessExits
  <2>3. \A c \in Conns : link[c] \in Link
    BY DEF Typed, LinksTyped
  <2>4. \A c \in Conns : /\ link'[c] \in Link /\ link'[c].master = link[c].master
                         /\ link'[c].slave = IF link[c].slave = "open" THEN "left" ELSE link[c].slave
    BY <2>1, <2>2, <2>3, AbandonedTyped
  <2>5. link' \in [Conns -> Link]
    <3>1. \A c \in Conns : Abandoned(link[c], n) \in Link
      BY <2>2, <2>3, AbandonedTyped
    <3> QED BY <2>1, <3>1
  <2>6. Cardinality(Served(link')) <= Workers
    BY <2>4, ServedStay DEF Typed, LinksTyped
  <2>7. \A c \in Conns : link'[c].slave = "none" <=> link[c].slave = "none"
    BY <2>4
  <2>8. \A c \in Conns : /\ link'[c].slave = "none" <=> c > conns
                         /\ link'[c].slave = "none" => link'[c].master = "none"
    BY <2>4, <2>7 DEF Typed, LinksTyped
  <2> QED BY <2>2, <2>5, <2>6, <2>8, Sizes DEF Typed, LinksTyped
<1>. QED
  BY <1>1, <1>2, <1>3, <1>4 DEF Typed

\* The worker that serves one more connection was free.
LEMMA ServeTyped ==
    ASSUME Typed, NEW c \in Conns, Serve(c)
    PROVE  Typed'
<1>1. link' = [link EXCEPT ![c] = [link[c] EXCEPT !.master = "served"]]
  BY DEF Serve
<1>2. \A k \in Link : [k EXCEPT !.master = "served"] \in Link
      /\ [k EXCEPT !.master = "served"].slave = k.slave
  BY DEF Link
<1>3. link[c] \in Link
  BY DEF Typed, LinksTyped
<1>4. link' \in [Conns -> Link] /\ \A d \in Conns : link'[d].slave = link[d].slave
  BY <1>1, <1>2, <1>3 DEF Typed, LinksTyped
<1>7. \A d \in Conns : link'[d].slave = "none" => link'[d].master = "none"
  BY <1>1, <1>4 DEF Serve, Typed, LinksTyped
<1>5. Cardinality(Served(link')) <= Workers
  <2>1. IsFiniteSet(Served(link))
    <3>1. IsFiniteSet(Conns)
      BY FS_Interval, Sizes DEF Conns
    <3>2. Served(link) \subseteq Conns
      BY DEF Served
    <3> QED BY <3>1, <3>2, FS_Subset
  <2>2. Served(link') \subseteq Served(link) \cup {c}
    BY <1>1 DEF Served, Typed, LinksTyped
  <2>3. Cardinality(Served(link) \cup {c}) <= Cardinality(Served(link)) + 1
        /\ IsFiniteSet(Served(link) \cup {c})
    <3> DEFINE S == Served(link)
    <3>1. IsFiniteSet(S) /\ Cardinality(S) \in Nat
      BY <2>1, FS_CardinalityType
    <3> HIDE DEF S
    <3>2. IsFiniteSet(S \cup {c}) /\ Cardinality(S \cup {c}) \in {Cardinality(S), Cardinality(S) + 1}
      BY <3>1, FS_AddElement
    <3>3. Cardinality(S \cup {c}) <= Cardinality(S) + 1
      BY <3>1, <3>2
    <3> QED BY <3>2, <3>3 DEF S
  <2>4. Cardinality(Served(link')) <= Cardinality(Served(link) \cup {c})
    BY <2>2, <2>3, FS_Subset
  <2>5. Cardinality(Served(link)) + Others < Workers
    BY DEF Serve, Served
  <2>6. /\ Cardinality(Served(link')) \in Nat /\ Cardinality(Served(link)) \in Nat
        /\ Cardinality(Served(link) \cup {c}) \in Nat
    <3>1. IsFiniteSet(Served(link'))
      BY <2>2, <2>3, FS_Subset
    <3> QED BY <2>1, <2>3, <3>1, FS_CardinalityType
  <2> QED BY <2>3, <2>4, <2>5, <2>6, Sizes
<1>6. LinksTyped'
  BY <1>4, <1>5, <1>7 DEF Serve, sendVars, Typed, LinksTyped, Served
<1>. QED
  BY <1>6 DEF Serve, lineVars, sendVars, history, Typed, LinesTyped, SendersTyped, RestTyped, Lone

\* A worker that reads or ends a connection serves one the slave has made; so
\* does what breaks it.
LEMMA NetTyped ==
    ASSUME Typed, NEW c \in Conns, NEW l \in Link, link[c].slave # "none", l.slave # "none",
           l.master = "served" => link[c].master = "served",
           link' = [link EXCEPT ![c] = l], RestTyped',
           UNCHANGED <<lineVars, sendVars, conns, thief, phase>>
    PROVE  Typed'
<1>1. c \in 1 .. conns
  BY MadeIsThere DEF Typed
<1>2. writer' \in 0 .. conns /\ conns' = conns
  BY DEF sendVars, Typed, LinksTyped
<1>3. LinksTyped'
  BY <1>1, <1>2, OneLink DEF Typed
<1>. QED
  BY <1>3 DEF lineVars, sendVars, Typed, LinesTyped, SendersTyped, Lone

LEMMA ServedIsMade ==
    ASSUME Typed, NEW c \in Conns, link[c].master = "served"
    PROVE  link[c].slave # "none" /\ link[c] \in Link /\ link[c].data \in Seq(Sent)
BY DEF Typed, LinksTyped, Link, Sent

LEMMA ReadTyped ==
    ASSUME Typed, NEW c \in Conns, Read(c)
    PROVE  Typed'
<1> DEFINE l == [link[c] EXCEPT !.data = Tail(@)]
<1>1. link[c].slave # "none" /\ link[c] \in Link /\ link[c].data \in Seq(Sent) /\ link[c].data # <<>>
  BY ServedIsMade DEF Read
<1>2. Tail(link[c].data) \in Seq(Sent) /\ Head(link[c].data) \in Sent
  BY <1>1, HeadTailProperties
<1>3. l \in Link /\ l.slave = link[c].slave /\ l.master = link[c].master
  <2>1. \A k \in Link, s \in Seq(Sent) : [k EXCEPT !.data = s] \in Link
        /\ [k EXCEPT !.data = s].slave = k.slave /\ [k EXCEPT !.data = s].master = k.master
    BY DEF Link, Sent
  <2> QED BY <1>1, <1>2, <2>1
<1>4. link' = [link EXCEPT ![c] = l]
  BY DEF Read
<1>5. shown' \in Seq(Lines)
  <2>1. CASE Head(link[c].data) = Warning
    BY <2>1 DEF Read, Typed, RestTyped
  <2>2. CASE Head(link[c].data) # Warning
    <3>1. Head(link[c].data) \in Lines /\ shown' = Append(shown, Head(link[c].data))
      BY <1>2, <2>2 DEF Read, Sent
    <3> QED BY <3>1, AppendProperties DEF Typed, RestTyped
  <2> QED BY <2>1, <2>2
<1>6. RestTyped'
  BY <1>5 DEF Read, Typed, RestTyped
<1> HIDE DEF l
<1>. QED
  BY <1>1, <1>3, <1>4, <1>6, NetTyped DEF Read

LEMMA EndIsEnded ==
    ASSUME NEW l \in Link
    PROVE  /\ Ended(l) \in Link /\ Ended(l).master = "closed" /\ Ended(l).data = l.data
           /\ Ended(l).slave = IF l.slave = "open" THEN "eof" ELSE l.slave
BY DEF Ended, Link

LEMMA EndOfConnTyped ==
    ASSUME Typed, NEW c \in Conns, EndOfConn(c)
    PROVE  Typed'
<1>1. link[c].slave # "none" /\ link[c] \in Link
  BY ServedIsMade DEF EndOfConn
<1>2. Ended(link[c]) \in Link /\ Ended(link[c]).slave # "none" /\ Ended(link[c]).master = "closed"
  BY <1>1, EndIsEnded
<1>3. link' = [link EXCEPT ![c] = Ended(link[c])]
  BY DEF EndOfConn
<1>4. RestTyped'
  BY DEF EndOfConn, Typed, RestTyped, history
<1>. QED
  BY <1>1, <1>2, <1>3, <1>4, NetTyped DEF EndOfConn

LEMMA BreakTyped ==
    ASSUME Typed, NEW c \in Conns, Break(c)
    PROVE  Typed'
<1>1. link[c].slave # "none" /\ link[c] \in Link /\ link[c].data \in Seq(Sent)
  BY DEF Break, Typed, LinksTyped, Link, Sent
<1>2. PICK d \in {<<>>, link[c].data}, p \in {link[c].master, "closed"} :
         link' = [link EXCEPT ![c] = [slave |-> "reset", master |-> p,
                                      data |-> IF p = "closed" THEN <<>> ELSE d]]
  BY DEF Break
<1> DEFINE l == [slave |-> "reset", master |-> p, data |-> IF p = "closed" THEN <<>> ELSE d]
<1>3. l \in Link /\ l.slave = "reset" /\ l.master = p
  <2>1. p \in {"none", "queued", "served", "closed"}
    BY <1>1 DEF Link
  <2>2. (IF p = "closed" THEN <<>> ELSE d) \in Seq(Lines \cup {Warning})
    BY <1>1, NothingTyped DEF Sent
  <2> QED BY <2>1, <2>2 DEF Link
<1>4. l.master = "served" => link[c].master = "served"
  BY <1>3
<1>5. RestTyped'
  BY Sizes DEF Break, Typed, RestTyped
<1>6. link' = [link EXCEPT ![c] = l]
  BY <1>2
<1> HIDE DEF l
<1>. QED
  BY <1>1, <1>3, <1>4, <1>5, <1>6, NetTyped DEF Break

LEMMA TypedAtFirst == Init => Typed
<1> SUFFICES ASSUME Init PROVE Typed
  OBVIOUS
<1> USE Sizes
<1>1. LinesTyped
  BY NothingTyped DEF Init, LinesTyped
<1>2. SendersTyped
  <2>1. at["run"] \in Places("run") /\ at["stop"] \in Places("stop")
        /\ at \in [Sender -> Places("run") \cup Places("stop")]
    BY DEF Init, Sender, Places
  <2>2. \A x \in Sender : at[x] \in Places(x)
    BY <2>1 DEF Sender
  <2>3. hand \in [Sender -> Batch] /\ using \in [Sender -> 0 .. MaxConns]
    BY NothingTyped DEF Init
  <2>4. attempt \in [Sender -> 0 .. Tries - 1]
    BY DEF Init, Tries
  <2> QED BY <2>1, <2>2, <2>3, <2>4 DEF SendersTyped
<1>3. LinksTyped
  <2> DEFINE l == [slave |-> "none", master |-> "none", data |-> <<>>]
  <2>1. l \in Link /\ l.slave = "none" /\ l.master = "none"
    BY NothingTyped DEF Link, Sent
  <2>2. link = [c \in Conns |-> l] /\ conns = 0 /\ writer = 0
    BY DEF Init
  <2> HIDE DEF l
  <2>3. link \in [Conns -> Link] /\ \A c \in Conns : link[c] = l
    BY <2>1, <2>2
  <2>4. Served(link) = {}
    BY <2>1, <2>3 DEF Served
  <2>5. Cardinality(Served(link)) <= Workers
    BY <2>4, FS_EmptySet
  <2>6. \A c \in Conns : link[c].slave = "none" <=> c > conns
    BY <2>1, <2>2, <2>3 DEF Conns
  <2> QED BY <2>1, <2>2, <2>3, <2>5, <2>6 DEF LinksTyped
<1>4. RestTyped
  <2>1. shown \in Seq(Lines)
    BY EmptySeq DEF Init
  <2>2. 0 \in 0 .. MaxBreaks
    OBVIOUS
  <2> QED BY <2>1, <2>2 DEF Init, RestTyped
<1>5. Lone
  BY DEF Init, Lone
<1>. QED
  BY <1>1, <1>2, <1>3, <1>4, <1>5 DEF Typed

LEMMA TypedStays == Typed /\ [Next]_vars => Typed'
<1> SUFFICES ASSUME Typed, [Next]_vars PROVE Typed'
  OBVIOUS
<1>1. CASE WriteLine
  BY <1>1, WriteTyped
<1>2. CASE \E x \in Sender : SenderStep(x)
  BY <1>2, SenderTyped
<1>3. CASE ServiceFails \/ Cancelled \/ RunEnds
  BY <1>3, EndsTyped
<1>4. CASE ThiefEnds
  BY <1>4, ThiefTyped
<1>5. CASE StopEnds \/ ProcessExits
  BY <1>5, StopEndsTyped, ExitTyped
<1>6. CASE \E c \in Conns : Serve(c) \/ Read(c) \/ EndOfConn(c) \/ Break(c)
  BY <1>6, ServeTyped, ReadTyped, EndOfConnTyped, BreakTyped
<1>7. CASE UNCHANGED vars
  BY <1>7 DEF vars, lineVars, sendVars, history, Typed, LinesTyped, SendersTyped, LinksTyped,
     Served, RestTyped, Lone
<1>. QED
  BY <1>1, <1>2, <1>3, <1>4, <1>5, <1>6, <1>7 DEF Next

\* Everything keeps its type, and no more threads of the receiver read than it has.
THEOREM TypeCorrect == Spec => []TypeOK
<1>1. Spec => []Typed
  BY TypedAtFirst, TypedStays, PTL DEF Spec
<1>. QED
  BY <1>1, TypedSplit, PTL

-----------------------------------------------------------------------------
(***************************************************************************)
(* Sequences of lines                                                      *)
(***************************************************************************)
\* The lines of s, warnings left aside, rise and are at most n.
Ordered(s, n) ==
    /\ \A i, j \in 1 .. Len(s) : i < j /\ s[i] # Warning /\ s[j] # Warning => s[i] < s[j]
    /\ \A i \in 1 .. Len(s) : s[i] <= n

\* One behind the other; a name for \o that the proofs below leave unexpanded.
Then(s, t) == s \o t

\* t is s without the piece b, and with warnings behind it.
Leaves(s, t, b) ==
    \E a, c \in Seq(Sent), w \in Seq({Warning}) :
        s = Then(a, Then(b, c)) /\ t = Then(Then(a, c), w)

Shifts(s, t) == \E b \in Seq({Warning}) : Leaves(s, t, b)   \* only warnings are left out
Drops(s, t) == \E b \in Seq(Sent) : Leaves(s, t, b)

LEMMA WarningIsSent ==
    ASSUME NEW w \in Seq({Warning})
    PROVE  w \in Seq(Sent)
BY SeqMonotonic DEF Sent

LEMMA SentIsNat == Sent \subseteq Nat
BY Sizes DEF Sent, Lines, Warning

\* Leaving some out keeps the order.
LEMMA OrderedWithout ==
    ASSUME NEW a \in Seq(Sent), NEW b \in Seq(Sent), NEW c \in Seq(Sent), NEW n \in Nat,
           Ordered(a \o (b \o c), n)
    PROVE  Ordered(a \o c, n)
<1> DEFINE s == a \o (b \o c)
           t == a \o c
           f(i) == IF i <= Len(a) THEN i ELSE i + Len(b)
<1>1. Len(a) \in Nat /\ Len(b) \in Nat /\ Len(c) \in Nat
  BY LenProperties
<1>2. /\ b \o c \in Seq(Sent) /\ Len(b \o c) = Len(b) + Len(c)
      /\ \A i \in 1 .. Len(b) + Len(c) : (b \o c)[i] = IF i <= Len(b) THEN b[i] ELSE c[i - Len(b)]
  BY ConcatProperties
<1>3. /\ Len(s) = Len(a) + (Len(b) + Len(c))
      /\ \A i \in 1 .. Len(a) + (Len(b) + Len(c)) :
            s[i] = IF i <= Len(a) THEN a[i] ELSE (b \o c)[i - Len(a)]
  BY <1>2, ConcatProperties
<1>4. /\ Len(t) = Len(a) + Len(c)
      /\ \A i \in 1 .. Len(a) + Len(c) : t[i] = IF i <= Len(a) THEN a[i] ELSE c[i - Len(a)]
  BY ConcatProperties
<1> HIDE DEF s, t
<1>5. \A i \in 1 .. Len(t) : f(i) \in 1 .. Len(s) /\ t[i] = s[f(i)]
  <2> SUFFICES ASSUME NEW i \in 1 .. Len(t) PROVE f(i) \in 1 .. Len(s) /\ t[i] = s[f(i)]
    OBVIOUS
  <2>1. CASE i <= Len(a)
    BY <1>1, <1>3, <1>4, <2>1
  <2>2. CASE ~(i <= Len(a))
    <3>1. i + Len(b) \in 1 .. Len(a) + (Len(b) + Len(c)) /\ ~(i + Len(b) <= Len(a))
          /\ i + Len(b) - Len(a) \in 1 .. Len(b) + Len(c) /\ ~(i + Len(b) - Len(a) <= Len(b))
          /\ i + Len(b) - Len(a) - Len(b) = i - Len(a)
      BY <1>1, <1>4, <2>2
    <3>2. s[i + Len(b)] = c[i - Len(a)]
      <4>1. s[i + Len(b)] = (b \o c)[i + Len(b) - Len(a)]
        BY <1>3, <3>1
      <4>2. (b \o c)[i + Len(b) - Len(a)] = c[i + Len(b) - Len(a) - Len(b)]
        BY <1>2, <3>1
      <4> QED BY <3>1, <4>1, <4>2
    <3>3. t[i] = c[i - Len(a)]
      BY <1>4, <2>2
    <3> QED BY <1>3, <2>2, <3>1, <3>2, <3>3
  <2> QED BY <2>1, <2>2
<1>6. \A i, j \in 1 .. Len(t) : i < j => f(i) < f(j)
  BY <1>1, <1>4
<1> HIDE DEF f
<1>7. Ordered(s, n)
  BY DEF s
<1>8. Ordered(t, n)
  BY <1>5, <1>6, <1>7 DEF Ordered
<1>. QED
  BY <1>8 DEF t

\* So do warnings behind.
LEMMA OrderedWarned ==
    ASSUME NEW s \in Seq(Sent), NEW n \in Nat, Ordered(s, n), NEW w \in Seq({Warning})
    PROVE  Ordered(s \o w, n)
<1>1. /\ s \o w \in Seq(Sent) /\ Len(s \o w) = Len(s) + Len(w)
      /\ \A i \in 1 .. Len(s) + Len(w) : (s \o w)[i] = IF i <= Len(s) THEN s[i] ELSE w[i - Len(s)]
  BY WarningIsSent, ConcatProperties
<1>2. Len(s) \in Nat /\ Len(w) \in Nat
  BY LenProperties
<1>3. \A i \in 1 .. Len(w) : w[i] = Warning
  BY ElementOfSeq
<1>4. \A i \in 1 .. Len(s \o w) : IF i <= Len(s) THEN (s \o w)[i] = s[i] /\ i \in 1 .. Len(s)
                                  ELSE (s \o w)[i] = Warning
  BY <1>1, <1>2, <1>3
<1>5. \A i \in 1 .. Len(s \o w), j \in 1 .. Len(s \o w) :
         i < j /\ (s \o w)[i] # Warning /\ (s \o w)[j] # Warning => (s \o w)[i] < (s \o w)[j]
  BY <1>4 DEF Ordered
<1>6. \A i \in 1 .. Len(s \o w) : (s \o w)[i] <= n
  BY <1>4 DEF Ordered, Warning
<1>. QED
  BY <1>5, <1>6 DEF Ordered

\* And a new line, greater than all.
LEMMA OrderedAppended ==
    ASSUME NEW s \in Seq(Sent), NEW n \in Nat, Ordered(s, n), n + 1 \in Lines
    PROVE  Ordered(s, n + 1) /\ Ordered(Append(s, n + 1), n + 1)
<1>1. /\ Len(Append(s, n + 1)) = Len(s) + 1 /\ Append(s, n + 1)[Len(s) + 1] = n + 1
      /\ \A i \in 1 .. Len(s) : Append(s, n + 1)[i] = s[i]
  BY AppendProperties DEF Sent
<1>2. Len(s) \in Nat /\ \A i \in 1 .. Len(s) : s[i] \in Nat /\ s[i] <= n
  BY LenProperties, ElementOfSeq, SentIsNat DEF Ordered
<1>. QED
  BY <1>1, <1>2 DEF Ordered

LEMMA DropsKeepOrder ==
    ASSUME NEW s \in Seq(Sent), NEW t, NEW n \in Nat, Ordered(s, n), Drops(s, t)
    PROVE  Ordered(t, n)
<1>1. PICK a \in Seq(Sent), b \in Seq(Sent), c \in Seq(Sent), w \in Seq({Warning}) :
         s = a \o (b \o c) /\ t = (a \o c) \o w
  BY DEF Drops, Leaves, Then
<1>2. Ordered(a \o c, n) /\ a \o c \in Seq(Sent)
  BY <1>1, OrderedWithout, ConcatProperties
<1>. QED
  BY <1>1, <1>2, OrderedWarned

LEMMA ShiftsDrop ==
    ASSUME NEW s, NEW t, Shifts(s, t)
    PROVE  Drops(s, t)
BY WarningIsSent DEF Shifts, Drops

LEMMA Joins ==
    /\ \A s, t \in Seq(Sent) : Then(s, t) \in Seq(Sent)
    /\ \A s, t, u \in Seq(Sent) : Then(Then(s, t), u) = Then(s, Then(t, u))
    /\ \A s \in Seq(Sent) : Then(s, <<>>) = s /\ Then(<<>>, s) = s
    /\ <<>> \in Seq(Sent) /\ <<>> \in Seq({Warning})
<1>1. \A s, t \in Seq(Sent) : s \o t \in Seq(Sent)
  BY ConcatProperties
<1>2. \A s, t, u \in Seq(Sent) : (s \o t) \o u = s \o (t \o u)
  BY ConcatAssociative
<1>3. \A s \in Seq(Sent) : s \o <<>> = s /\ <<>> \o s = s
  BY ConcatEmptySeq
<1>4. <<>> \in Seq(Sent) /\ <<>> \in Seq({Warning})
  BY EmptySeq
<1>5. \A s, t \in Seq(Sent) : Then(s, t) \in Seq(Sent)
  BY <1>1 DEF Then
<1>6. \A s, t, u \in Seq(Sent) : Then(Then(s, t), u) = Then(s, Then(t, u))
  BY <1>2 DEF Then
<1>7. \A s \in Seq(Sent) : Then(s, <<>>) = s /\ Then(<<>>, s) = s
  BY <1>3 DEF Then
<1>. QED
  BY <1>4, <1>5, <1>6, <1>7

LEMMA RangesJoin ==
    \A s, t \in Seq(Sent) : Range(Then(s, t)) = Range(s) \cup Range(t)
BY RangeConcatenation DEF Then

LEMMA ShiftsKeepLines ==
    ASSUME NEW s, NEW t, Shifts(s, t)
    PROVE  Range(s) \subseteq Range(t) \cup {Warning}
<1>1. PICK b \in Seq({Warning}), a \in Seq(Sent), c \in Seq(Sent), w \in Seq({Warning}) :
         s = Then(a, Then(b, c)) /\ t = Then(Then(a, c), w)
  BY DEF Shifts, Leaves
<1>2. b \in Seq(Sent) /\ w \in Seq(Sent) /\ Range(b) \subseteq {Warning}
  BY WarningIsSent, RangeOfSeq
<1>3. Then(b, c) \in Seq(Sent) /\ Then(a, c) \in Seq(Sent)
  BY <1>2, Joins
<1>4. Range(s) = Range(a) \cup (Range(b) \cup Range(c))
  BY <1>1, <1>2, <1>3, RangesJoin
<1>5. Range(t) = (Range(a) \cup Range(c)) \cup Range(w)
  BY <1>1, <1>2, <1>3, RangesJoin
<1>. QED
  BY <1>2, <1>4, <1>5

LEMMA Warned ==
    ASSUME NEW s \in Seq(Sent), NEW w \in Seq({Warning})
    PROVE  Shifts(s, Then(s, w))
<1>1. s = Then(s, Then(<<>>, <<>>)) /\ Then(s, w) = Then(Then(s, <<>>), w)
  BY Joins
<1>2. Leaves(s, Then(s, w), <<>>)
  BY <1>1, Joins DEF Leaves
<1>. QED
  BY <1>2, Joins DEF Shifts

LEMMA LeftAsItIs ==
    ASSUME NEW s \in Seq(Sent)
    PROVE  Shifts(s, s)
BY Warned, Joins

\* The lines at hand get behind those on the connection.
LEMMA GoOut ==
    ASSUME NEW s \in Seq(Sent), NEW u \in Seq(Sent), NEW l \in Seq(Sent), NEW q \in Seq(Sent),
           NEW w \in Seq({Warning})
    PROVE  Shifts(Then(s, Then(u, Then(l, q))), Then(s, Then(Then(u, l), Then(<<>>, Then(q, w)))))
<1>1. w \in Seq(Sent)
  BY WarningIsSent
<1>2. Then(q, w) \in Seq(Sent) /\ Then(u, l) \in Seq(Sent) /\ Then(l, q) \in Seq(Sent)
      /\ Then(u, Then(l, q)) \in Seq(Sent) /\ Then(s, Then(u, Then(l, q))) \in Seq(Sent)
  BY <1>1, Joins
<1>3. Then(<<>>, Then(q, w)) = Then(q, w)
  BY <1>2, Joins
<1>4. Then(Then(u, l), q) = Then(u, Then(l, q))
  BY Joins
<1>5. Then(Then(u, l), Then(q, w)) = Then(Then(u, Then(l, q)), w)
  BY <1>1, <1>2, <1>4, Joins
<1>6. Then(s, Then(Then(u, l), Then(q, w))) = Then(Then(s, Then(u, Then(l, q))), w)
  BY <1>1, <1>2, <1>5, Joins
<1>7. Shifts(Then(s, Then(u, Then(l, q))), Then(Then(s, Then(u, Then(l, q))), w))
  BY <1>2, Warned
<1>. QED
  BY <1>3, <1>6, <1>7

LEMMA GoOutOnly ==
    ASSUME NEW s \in Seq(Sent), NEW u \in Seq(Sent), NEW l \in Seq(Sent), NEW q \in Seq(Sent)
    PROVE  Then(s, Then(u, Then(l, q))) = Then(s, Then(Then(u, l), Then(<<>>, q)))
<1>1. Then(<<>>, q) = q /\ Then(Then(u, l), q) = Then(u, Then(l, q))
  BY Joins
<1>. QED
  BY <1>1

\* The lines at hand are lost.
LEMMA GoNowhere ==
    ASSUME NEW s \in Seq(Sent), NEW l \in Seq(Sent), NEW q \in Seq(Sent), NEW w \in Seq({Warning})
    PROVE  Drops(Then(s, Then(<<>>, Then(l, q))), Then(s, Then(<<>>, Then(<<>>, Then(q, w)))))
<1>1. w \in Seq(Sent)
  BY WarningIsSent
<1>2. Then(q, w) \in Seq(Sent) /\ Then(l, q) \in Seq(Sent)
  BY <1>1, Joins
<1>3. Then(s, Then(<<>>, Then(l, q))) = Then(s, Then(l, q))
  BY <1>2, Joins
<1>4. Then(s, Then(<<>>, Then(<<>>, Then(q, w)))) = Then(Then(s, q), w)
  BY <1>1, <1>2, Joins
<1>. QED
  BY <1>3, <1>4 DEF Drops, Leaves

\* A line that is read stands last of those shown; a warning is not shown.
LEMMA GetsIn ==
    ASSUME NEW s \in Seq(Sent), NEW u \in Seq(Sent), NEW r \in Seq(Sent), u # <<>>
    PROVE  /\ Head(u) = Warning => Shifts(Then(s, Then(u, r)), Then(s, Then(Tail(u), r)))
           /\ Then(s, Then(u, r)) = Then(Append(s, Head(u)), Then(Tail(u), r))
<1> DEFINE h == <<Head(u)>>
           t == Tail(u)
<1>1. Head(u) \in Sent /\ t \in Seq(Sent) /\ h \in Seq(Sent)
  BY HeadTailProperties
<1>2. u = Then(h, t)
  <2>1. Len(u) \in Nat \ {0} /\ u[1] = Head(u)
    BY EmptySeq
  <2>2. u = SubSeq(u, 1, Len(u))
    BY SubSeqFull
  <2>3. 1 \in 1 .. Len(u) /\ Len(u) \in 1 .. Len(u)
    BY <2>1
  <2>4. SubSeq(u, 1, Len(u)) = <<u[1]>> \o SubSeq(u, 1 + 1, Len(u))
    BY <2>3, SubSeqRecursiveFirst
  <2>5. t = SubSeq(u, 2, Len(u))
    BY TailIsSubSeq
  <2> QED BY <2>1, <2>2, <2>4, <2>5 DEF Then
<1>3. Append(s, Head(u)) = Then(s, h)
  BY <1>1, AppendIsConcat DEF Then
<1>4. ASSUME Head(u) = Warning PROVE h \in Seq({Warning})
  BY <1>4
<1> HIDE DEF h, t
<1>5. Then(t, r) \in Seq(Sent) /\ Then(s, Then(t, r)) \in Seq(Sent)
  BY <1>1, Joins
<1>6. Then(u, r) = Then(h, Then(t, r))
  BY <1>1, <1>2, Joins
<1>7. Then(s, Then(u, r)) = Then(Then(s, h), Then(t, r))
  BY <1>1, <1>5, <1>6, Joins
<1>8. Head(u) = Warning => Shifts(Then(s, Then(u, r)), Then(s, Then(t, r)))
  <2> SUFFICES ASSUME Head(u) = Warning PROVE Shifts(Then(s, Then(u, r)), Then(s, Then(t, r)))
    OBVIOUS
  <2>1. h \in Seq({Warning})
    BY <1>4
  <2>2. Then(s, Then(t, r)) = Then(Then(s, Then(t, r)), <<>>)
    BY <1>5, Joins
  <2>3. Leaves(Then(s, Then(u, r)), Then(s, Then(t, r)), h)
    <3> DEFINE c == Then(t, r)
               e == <<>>
    <3>1. c \in Seq(Sent) /\ e \in Seq({Warning})
          /\ Then(s, Then(u, r)) = Then(s, Then(h, c)) /\ Then(s, c) = Then(Then(s, c), e)
      BY <1>5, <1>6, <2>2, Joins
    <3> HIDE DEF c, e
    <3>2. Leaves(Then(s, Then(u, r)), Then(s, c), h)
      BY <3>1 DEF Leaves
    <3> QED BY <3>2 DEF c
  <2> QED BY <2>1, <2>3 DEF Shifts
<1>. QED
  BY <1>3, <1>7, <1>8 DEF t

LEMMA GetsWritten ==
    ASSUME NEW s \in Seq(Sent), NEW u \in Seq(Sent), NEW h \in Seq(Sent), NEW q \in Seq(Sent),
           NEW e \in Seq(Sent)
    PROVE  Then(s, Then(u, Then(h, Then(q, e)))) = Then(Then(s, Then(u, Then(h, q))), e)
<1>1. Then(h, q) \in Seq(Sent) /\ Then(u, Then(h, q)) \in Seq(Sent)
  BY Joins
<1>2. Then(h, Then(q, e)) = Then(Then(h, q), e)
  BY Joins
<1>3. Then(u, Then(Then(h, q), e)) = Then(Then(u, Then(h, q)), e)
  BY <1>1, Joins
<1>4. Then(s, Then(Then(u, Then(h, q)), e)) = Then(Then(s, Then(u, Then(h, q))), e)
  BY <1>1, Joins
<1>. QED
  BY <1>2, <1>3, <1>4

LEMMA AppendedLast ==
    ASSUME NEW s \in Seq(Sent), NEW x \in Sent
    PROVE  <<x>> \in Seq(Sent) /\ Append(s, x) = Then(s, <<x>>) /\ Range(Append(s, x)) = Range(s) \cup {x}
<1>1. <<x>> \in Seq(Sent) /\ Range(<<x>>) = {x}
  BY RangeEquality DEF Range
<1>2. Append(s, x) = Then(s, <<x>>)
  BY AppendIsConcat DEF Then
<1>. QED
  BY <1>1, <1>2, RangesJoin

-----------------------------------------------------------------------------
(***************************************************************************)
(* The way of the lines                                                    *)
(***************************************************************************)
\* No connection has broken, and run is the only sender.
Calm == breaks = 0 /\ at["stop"] = "off"

Wire == IF writer = 0 THEN <<>> ELSE link[writer].data

\* A batch is in run's hand as long as it has not been written.
Held == IF at["run"] \in {"open", "pause"} THEN hand["run"] ELSE <<>>

Way == Then(shown, Then(Wire, Then(Held, queue)))

\* What the connections look like while all is calm: unread lines are only on the one in use, and run waits
\* for drain on no other.
Wired ==
    /\ \A c \in Conns : link[c].slave # "left"
    /\ \A c \in Conns : link[c].data # <<>> => c = writer /\ link[c].slave = "open"
    /\ at["run"] \in {"open", "pause"} => writer = 0
    /\ at["run"] = "drain" =>
          using["run"] = writer /\ writer # 0 /\ link[writer].slave \in {"open", "eof"}

\* What a step does to the lines on their way.
Moved == Shifts(Way, Way') \/ (Drops(Way, Way') /\ (lost' \/ gaveUp'))

LEMMA WayTyped ==
    ASSUME Typed
    PROVE  /\ shown \in Seq(Sent) /\ Wire \in Seq(Sent) /\ Held \in Seq(Sent) /\ queue \in Seq(Sent)
           /\ Way \in Seq(Sent)
<1>1. shown \in Seq(Sent)
  BY SeqMonotonic DEF Typed, RestTyped, Sent
<1>2. Wire \in Seq(Sent)
  BY WriterIsThere, EmptySeq DEF Wire, Typed
<1>3. Held \in Seq(Sent) /\ queue \in Seq(Sent)
  BY EmptySeq DEF Held, Typed, SendersTyped, LinesTyped, Sender, Batch, Queued
<1>. QED
  BY <1>1, <1>2, <1>3, Joins DEF Way

\* An attempt that fails leaves nothing on a connection; the last one loses its batch.
LEMMA FailsMoves ==
    ASSUME Typed, Typed', Calm, Wired, Wire = <<>>, \A c \in Conns : link[c].data = <<>>,
           NEW lines \in Batch, NEW q \in Queued, Then(Held, queue) = Then(lines, q),
           Fails("run", lines, q), UNCHANGED <<written, refused, link, shown>>
    PROVE  Wired' /\ Moved
<1>1. writer' = 0 /\ Wire' = <<>>
  BY DEF Fails, Wire
<1>2. at'["run"] # "drain" => Wired'
  BY <1>1 DEF Wired
<1>a. "run" \in Sender /\ attempt["run"] \in 0 .. Tries - 1
      /\ 0 \in 0 .. MaxConns /\ "pause" \in Places("run")
  BY Sizes DEF Typed, SendersTyped, Sender, Places
<1>b. lines \in Seq(Sent) /\ q \in Seq(Sent) /\ shown \in Seq(Sent) /\ Way \in Seq(Sent)
      /\ Way = Then(shown, Then(<<>>, Then(lines, q)))
  BY WayTyped DEF Batch, Queued, Way
<1>3. CASE Returns("run", q) /\ gaveUp' = TRUE
  <2>1. at'["run"] = "idle" /\ \E w \in Seq({Warning}) : queue' = Then(q, w)
    BY <1>3, <1>a, ReturnsTyped DEF Typed, Then
  <2>2. PICK w \in Seq({Warning}) : queue' = Then(q, w)
    BY <2>1
  <2>3. Way' = Then(shown, Then(<<>>, Then(<<>>, Then(q, w))))
    BY <1>1, <2>1, <2>2 DEF Way, Held
  <2>4. Drops(Way, Way')
    BY <1>b, <2>3, GoNowhere
  <2> QED BY <1>2, <1>3, <2>1, <2>4 DEF Moved
<1>4. CASE attempt["run"] + 1 < Tries
           /\ Holds("run", "pause", lines, attempt["run"] + 1, 0) /\ queue' = q
  <2>1. attempt["run"] + 1 \in 0 .. Tries - 1
    BY <1>4, <1>a DEF Tries
  <2>2. at'["run"] = "pause" /\ hand'["run"] = lines
    BY <1>4, <1>a, <2>1, HoldsTyped DEF Typed
  <2>3. Way' = Way
    BY <1>1, <1>4, <1>b, <2>2 DEF Way, Held
  <2> QED BY <1>2, <1>b, <2>2, <2>3, LeftAsItIs DEF Moved
<1>. QED
  BY <1>3, <1>4 DEF Fails, Queues

LEMMA AttemptMoves ==
    ASSUME Typed, Typed', Calm, Wired, at["run"] \in {"idle", "pause"},
           NEW lines \in Batch, NEW q \in Queued, Then(Held, queue) = Then(lines, q),
           Attempt("run", lines, q), UNCHANGED <<written, refused, shown>>
    PROVE  Wired' /\ Moved
<1>0. /\ shown \in Seq(Sent) /\ Wire \in Seq(Sent) /\ lines \in Seq(Sent) /\ q \in Seq(Sent)
      /\ Way \in Seq(Sent) /\ Way = Then(shown, Then(Wire, Then(lines, q))) /\ shown' = shown
  BY WayTyped DEF Way, Batch, Queued
<1>a. "run" \in Sender /\ attempt["run"] \in 0 .. Tries - 1 /\ writer \in 0 .. MaxConns
      /\ 0 \in 0 .. MaxConns /\ "drain" \in Places("run") /\ "open" \in Places("run")
      /\ link \in [Conns -> Link]
  BY Sizes DEF Typed, SendersTyped, LinksTyped, Sender, Places
<1>1. CASE WritesOn("run", lines, q)
  <2>1. writer # 0 /\ link[writer].slave = "open" /\ writer' = writer
        /\ writer \in Conns /\ link[writer] \in Link
    BY <1>1, WriterIsThere DEF WritesOn, Typed
  <2>2. /\ \A d \in Conns \ {writer} : link'[d] = link[d]
        /\ link'[writer].slave = "open" /\ link'[writer].data = Then(Wire, lines)
    <3>1. link' = [link EXCEPT ![writer] = [link[writer] EXCEPT !.data = @ \o lines]]
      BY <1>1 DEF WritesOn
    <3>2. link'[writer] = [link[writer] EXCEPT !.data = @ \o lines]
      BY <1>a, <2>1, <3>1
    <3>3. \A d \in Conns \ {writer} : link'[d] = link[d]
      BY <1>a, <3>1
    <3> QED BY <2>1, <3>2, <3>3 DEF Wire, Then, Link
  <2>3. Wire' = Then(Wire, lines)
    BY <2>1, <2>2 DEF Wire
  <2>4. /\ \A c \in Conns : link'[c].slave # "left"
        /\ \A c \in Conns : link'[c].data # <<>> => c = writer' /\ link'[c].slave = "open"
    BY <2>1, <2>2 DEF Wired
  <2>5. CASE Returns("run", q)
    <3>1. /\ at'["run"] = "idle"
          /\ \E w \in Seq({Warning}) : queue' = Then(q, w)
      BY <1>a, <2>5, ReturnsTyped DEF Typed, Then
    <3>2. Wired'
      BY <2>4, <3>1 DEF Wired
    <3>3. PICK w \in Seq({Warning}) : queue' = Then(q, w)
      BY <3>1
    <3>4. Way' = Then(shown, Then(Then(Wire, lines), Then(<<>>, Then(q, w))))
      BY <1>0, <2>3, <3>1, <3>3 DEF Way, Held
    <3> QED BY <1>0, <3>2, <3>4, GoOut DEF Moved
  <2>6. CASE Holds("run", "drain", lines, attempt["run"], writer) /\ queue' = q /\ UNCHANGED drops
    <3>1. at'["run"] = "drain" /\ using'["run"] = writer
      BY <1>a, <2>6, HoldsTyped DEF Typed
    <3>2. Wired'
      BY <2>1, <2>2, <2>4, <3>1 DEF Wired
    <3>3. Way' = Then(shown, Then(Then(Wire, lines), Then(<<>>, q)))
      BY <1>0, <2>3, <2>6, <3>1 DEF Way, Held
    <3>4. Way' = Way
      BY <1>0, <3>3, GoOutOnly
    <3> QED BY <1>0, <3>2, <3>4, LeftAsItIs DEF Moved
  <2> QED BY <1>1, <2>5, <2>6 DEF WritesOn
<1>2. CASE WritesOnEnded("run", q)
  <2>1. writer # 0 /\ link[writer].slave = "eof" /\ writer' = writer
        /\ writer \in Conns /\ link[writer] \in Link
    BY <1>2, WriterIsThere DEF WritesOnEnded, Typed
  <2>2. lost' /\ Wire = <<>> /\ link[writer].data = <<>>
    BY <1>2, <2>1 DEF Wired, Wire, WritesOnEnded
  <2>3. /\ \A d \in Conns \ {writer} : link'[d] = link[d]
        /\ link'[writer].slave = "reset" /\ link'[writer].data = <<>>
    <3>1. link' = [link EXCEPT ![writer] = [link[writer] EXCEPT !.slave = "reset"]]
      BY <1>2 DEF WritesOnEnded
    <3>2. link'[writer] = [link[writer] EXCEPT !.slave = "reset"]
      BY <1>a, <2>1, <3>1
    <3>3. \A d \in Conns \ {writer} : link'[d] = link[d]
      BY <1>a, <3>1
    <3> QED BY <2>1, <2>2, <3>2, <3>3 DEF Link
  <2>4. Returns("run", q)
    BY <1>2 DEF WritesOnEnded
  <2>5. at'["run"] = "idle" /\ \E w \in Seq({Warning}) : queue' = Then(q, w)
    BY <1>a, <2>4, ReturnsTyped DEF Typed, Then
  <2>6. Wired'
    BY <2>1, <2>2, <2>3, <2>5 DEF Wired
  <2>7. PICK w \in Seq({Warning}) : queue' = Then(q, w)
    BY <2>5
  <2>8. Way' = Then(shown, Then(<<>>, Then(<<>>, Then(q, w))))
    BY <1>0, <2>1, <2>3, <2>5, <2>7 DEF Way, Wire, Held
  <2>9. Way = Then(shown, Then(<<>>, Then(lines, q)))
    BY <1>0, <2>2
  <2> QED BY <1>0, <2>2, <2>6, <2>8, <2>9, GoNowhere DEF Moved
<1>3. CASE WantsAnother("run", lines, q)
  <2>1. Wire = <<>>
    BY <1>3, WriterIsThere DEF WantsAnother, Wire, Wired, Typed
  <2>2. writer' = 0 /\ queue' = q /\ link' = link
    BY <1>3 DEF WantsAnother
  <2>3. at'["run"] = "open" /\ hand'["run"] = lines
    BY <1>3, <1>a, HoldsTyped DEF WantsAnother, Typed
  <2>4. \A c \in Conns : link[c].data = <<>>
    <3> SUFFICES ASSUME NEW c \in Conns, link[c].data # <<>> PROVE FALSE
      OBVIOUS
    <3>1. c = writer /\ writer # 0
      BY <1>a, Sizes DEF Wired, Conns
    <3> QED BY <2>1, <3>1 DEF Wire
  <2>5. Wired'
    BY <2>2, <2>3, <2>4 DEF Wired
  <2>6. Way' = Way
    BY <1>0, <2>1, <2>2, <2>3 DEF Way, Wire, Held
  <2> QED BY <1>0, <2>5, <2>6, LeftAsItIs DEF Moved
<1>4. CASE FindsOut("run", lines, q)
  <2>1. \A c \in Conns : link[c].data = <<>>
    <3> SUFFICES ASSUME NEW c \in Conns, link[c].data # <<>> PROVE FALSE
      OBVIOUS
    <3> QED BY <1>4 DEF Wired, FindsOut
  <2>2. Wire = <<>>
    BY <1>4, <2>1, WriterIsThere DEF FindsOut, Wire, Typed
  <2> QED BY <1>4, <2>1, <2>2, FailsMoves DEF FindsOut
<1>. QED
  BY <1>1, <1>2, <1>3, <1>4, AttemptSplit DEF Typed

LEMMA TakeMoves ==
    ASSUME Typed, Typed', Calm, Wired, Take("run")
    PROVE  Wired' /\ Moved
<1> DEFINE n == Min({BatchSize, Len(queue)})
           lines == SubSeq(queue, 1, n)
           q == SubSeq(queue, n + 1, Len(queue))
<1>1. queue \in Queued /\ queue # <<>> /\ at["run"] = "idle"
  BY DEF Take, Typed, LinesTyped
<1>2. lines \in Batch /\ q \in Queued /\ lines \o q = queue
  BY <1>1, BatchTaken
<1>3. Attempt("run", lines, q) /\ UNCHANGED <<written, refused, shown>>
  BY DEF Take, history
<1> HIDE DEF lines, q
<1>4. Then(Held, queue) = Then(lines, q)
  <2>1. Held = <<>> /\ Then(<<>>, queue) = queue
    BY <1>1, Joins, WayTyped DEF Held
  <2>2. Then(lines, q) = queue
    BY <1>2 DEF Then
  <2> QED BY <2>1, <2>2
<1>. QED
  BY <1>1, <1>2, <1>3, <1>4, AttemptMoves

LEMMA RetryMoves ==
    ASSUME Typed, Typed', Calm, Wired, Retry("run")
    PROVE  Wired' /\ Moved
<1>1. hand["run"] \in Batch /\ queue \in Queued /\ at["run"] = "pause"
  BY DEF Retry, Typed, SendersTyped, LinesTyped, Sender
<1>2. Attempt("run", hand["run"], queue) /\ UNCHANGED <<written, refused, shown>>
  BY DEF Retry, history
<1>3. Then(Held, queue) = Then(hand["run"], queue)
  BY <1>1 DEF Held
<1>. QED
  BY <1>1, <1>2, <1>3, AttemptMoves

\* Where the connection in use is none, no unread line is on any.
LEMMA AllUnwired ==
    ASSUME Typed, Wired, writer = 0
    PROVE  Wire = <<>> /\ \A c \in Conns : link[c].data = <<>>
BY Sizes DEF Wire, Wired, Conns

LEMMA OpenMoves ==
    ASSUME Typed, Typed', Calm, Wired, Open("run")
    PROVE  Wired' /\ Moved
<1>1. writer = 0 /\ at["run"] = "open" /\ Held = hand["run"] /\ shown' = shown
      /\ Wire = <<>> /\ \A c \in Conns : link[c].data = <<>>
  BY AllUnwired DEF Open, Wired, Held, history
<1>2. /\ writer' = conns + 1 /\ conns + 1 \in Conns /\ conns' = conns + 1
      /\ link' = [link EXCEPT ![conns + 1] = New(hand["run"])] /\ link \in [Conns -> Link]
  BY Sizes DEF Open, New, Typed, LinksTyped, Conns
<1>3. /\ \A d \in Conns \ {conns + 1} : link'[d] = link[d]
      /\ link'[conns + 1].slave = "open" /\ link'[conns + 1].data = hand["run"]
  <2>1. link'[conns + 1] = New(hand["run"]) /\ \A d \in Conns \ {conns + 1} : link'[d] = link[d]
    BY <1>2
  <2> QED BY <2>1 DEF New
<1>4. Wire' = hand["run"]
  BY <1>2, <1>3, Sizes DEF Wire, Conns
<1>5. /\ \A c \in Conns : link'[c].slave # "left"
      /\ \A c \in Conns : link'[c].data # <<>> => c = writer' /\ link'[c].slave = "open"
  BY <1>1, <1>2, <1>3 DEF Wired
<1>a. "run" \in Sender /\ attempt["run"] \in 0 .. Tries - 1 /\ "drain" \in Places("run")
      /\ hand["run"] \in Batch /\ queue \in Queued /\ UNCHANGED <<written, refused>>
      /\ conns + 1 \in 0 .. MaxConns
  BY <1>2, Sizes DEF Open, Typed, LinesTyped, SendersTyped, Sender, Places, Conns
<1>b. hand["run"] \in Seq(Sent) /\ queue \in Seq(Sent) /\ shown \in Seq(Sent) /\ Way \in Seq(Sent)
      /\ <<>> \in Seq(Sent) /\ Then(<<>>, hand["run"]) = hand["run"]
      /\ Way = Then(shown, Then(<<>>, Then(hand["run"], queue)))
  BY <1>1, <1>a, WayTyped, Joins DEF Batch, Way
<1>6. CASE Returns("run", queue)
  <2>1. at'["run"] = "idle" /\ \E w \in Seq({Warning}) : queue' = Then(queue, w)
    BY <1>a, <1>6, ReturnsTyped DEF Typed, Then
  <2>2. PICK w \in Seq({Warning}) : queue' = Then(queue, w)
    BY <2>1
  <2>3. Wired'
    BY <1>5, <2>1 DEF Wired
  <2>4. Way' = Then(shown, Then(Then(<<>>, hand["run"]), Then(<<>>, Then(queue, w))))
    BY <1>1, <1>4, <1>b, <2>1, <2>2 DEF Way, Held
  <2>5. Shifts(Way, Way')
    BY <1>b, <2>4, GoOut
  <2> QED BY <2>3, <2>5 DEF Moved
<1>7. CASE Holds("run", "drain", hand["run"], attempt["run"], conns') /\ queue' = queue /\ UNCHANGED drops
  <2>1. at'["run"] = "drain" /\ using'["run"] = conns + 1
    BY <1>2, <1>7, <1>a, HoldsTyped DEF Typed
  <2>2. Wired'
    BY <1>2, <1>3, <1>5, <2>1, Sizes DEF Wired, Conns
  <2>3. Way' = Then(shown, Then(Then(<<>>, hand["run"]), Then(<<>>, queue)))
    BY <1>1, <1>4, <1>7, <1>b, <2>1 DEF Way, Held
  <2>4. Way' = Way
    <3>1. Then(shown, Then(<<>>, Then(hand["run"], queue)))
             = Then(shown, Then(Then(<<>>, hand["run"]), Then(<<>>, queue)))
      <4>1. Then(<<>>, queue) = queue
        BY <1>b, Joins
      <4>2. Then(hand["run"], queue) \in Seq(Sent)
        BY <1>b, Joins
      <4>3. Then(<<>>, Then(hand["run"], queue)) = Then(hand["run"], queue)
        BY <4>2, Joins
      <4> QED BY <1>b, <4>1, <4>3
    <3> QED BY <1>b, <2>3, <3>1
  <2> QED BY <1>b, <2>2, <2>4, LeftAsItIs DEF Moved
<1>. QED
  BY <1>6, <1>7 DEF Open, Queues

LEMMA OpenFailsMoves ==
    ASSUME Typed, Typed', Calm, Wired, OpenFails("run")
    PROVE  Wired' /\ Moved
<1>1. writer = 0 /\ at["run"] = "open" /\ Held = hand["run"] /\ Wire = <<>>
      /\ (\A c \in Conns : link[c].data = <<>>)
      /\ Fails("run", hand["run"], queue)
      /\ UNCHANGED <<written, refused, conns, link, shown>>
  BY AllUnwired DEF OpenFails, Wired, Held
<1>2. hand["run"] \in Batch /\ queue \in Queued
  BY DEF Typed, LinesTyped, SendersTyped, Sender
<1>. QED
  BY <1>1, <1>2, FailsMoves

LEMMA DrainMoves ==
    ASSUME Typed, Typed', Calm, Wired, Drain("run")
    PROVE  Wired' /\ Moved
<1>1. at["run"] = "drain" /\ using["run"] = writer /\ writer # 0
      /\ link[writer].slave \in {"open", "eof"} /\ Held = <<>>
  BY DEF Drain, Wired, Held
<1>2. Returns("run", queue) /\ UNCHANGED <<writer, written, refused, conns, link, shown>>
  BY <1>1 DEF Drain
<1>a. "run" \in Sender /\ queue \in Queued
  BY DEF Typed, LinesTyped, Sender
<1>3. at'["run"] = "idle" /\ \E w \in Seq({Warning}) : queue' = Then(queue, w)
  BY <1>2, <1>a, ReturnsTyped DEF Typed, Then
<1>4. PICK w \in Seq({Warning}) : queue' = Then(queue, w)
  BY <1>3
<1>5. Wired'
  BY <1>2, <1>3 DEF Wired
<1>6. shown \in Seq(Sent) /\ Wire \in Seq(Sent) /\ queue \in Seq(Sent) /\ <<>> \in Seq(Sent)
      /\ Then(Wire, <<>>) = Wire
  BY WayTyped, Joins
<1>7. Way = Then(shown, Then(Wire, Then(<<>>, queue)))
  BY <1>1 DEF Way
<1>8. Way' = Then(shown, Then(Then(Wire, <<>>), Then(<<>>, Then(queue, w))))
  BY <1>2, <1>3, <1>4, <1>6 DEF Way, Wire, Held
<1>9. Shifts(Way, Way')
  BY <1>6, <1>7, <1>8, GoOut
<1>. QED
  BY <1>5, <1>9 DEF Moved

LEMMA SenderMoves ==
    ASSUME Typed, Typed', Calm, Wired, NEW x \in Sender, SenderStep(x)
    PROVE  Wired' /\ Moved
<1>1. x = "run"
  BY DEF SenderStep, Take, Retry, Open, OpenFails, Drain, Calm, Sender
<1>. QED
  BY <1>1, TakeMoves, RetryMoves, OpenMoves, OpenFailsMoves, DrainMoves DEF SenderStep

\* A line that is read moves on; the others of its connection and all on others stay.
LEMMA ReadMoves ==
    ASSUME Typed, Typed', Calm, Wired, NEW c \in Conns, Read(c)
    PROVE  Wired' /\ Moved
<1> DEFINE d == link[c].data
           r == Then(Held, queue)
<1>1. d \in Seq(Sent) /\ d # <<>> /\ link[c] \in Link /\ link \in [Conns -> Link]
  BY ServedIsMade DEF Read, Typed, LinksTyped
<1>2. c = writer /\ link[c].slave = "open" /\ writer # 0 /\ Wire = d
  BY <1>1, Sizes DEF Wired, Wire, Conns
<1>3. /\ \A e \in Conns \ {c} : link'[e] = link[e]
      /\ link'[c].slave = "open" /\ link'[c].data = Tail(d)
  <2>1. link'[c] = [link[c] EXCEPT !.data = Tail(@)] /\ \A e \in Conns \ {c} : link'[e] = link[e]
    BY <1>1 DEF Read
  <2> QED BY <1>1, <1>2, <2>1 DEF Link
<1>4. UNCHANGED <<writer, at, hand, using, queue>>
  BY DEF Read, lineVars, sendVars
<1>5. Wired'
  BY <1>2, <1>3, <1>4 DEF Wired
<1>6. Wire' = Tail(d) /\ Then(Held, queue)' = r
  BY <1>2, <1>3, <1>4 DEF Wire, Held
<1>7. shown \in Seq(Sent) /\ r \in Seq(Sent) /\ Way \in Seq(Sent) /\ Way = Then(shown, Then(d, r))
  BY <1>2, WayTyped, Joins DEF Way
<1>8. Way' = Then(shown', Then(Tail(d), r))
  BY <1>6 DEF Way
<1> HIDE DEF d, r
<1>9. CASE Head(d) = Warning
  <2>1. shown' = shown
    BY <1>9 DEF Read, d
  <2>2. Shifts(Way, Way')
    BY <1>1, <1>7, <1>8, <1>9, <2>1, GetsIn
  <2> QED BY <1>5, <2>2 DEF Moved
<1>10. CASE Head(d) # Warning
  <2>1. shown' = Append(shown, Head(d))
    BY <1>10 DEF Read, d
  <2>2. Way' = Way
    BY <1>1, <1>7, <1>8, <2>1, GetsIn
  <2> QED BY <1>5, <1>7, <2>2, LeftAsItIs DEF Moved
<1>. QED
  BY <1>9, <1>10

LEMMA NothingMoves ==
    ASSUME Typed, UNCHANGED <<shown, writer, at, hand, queue>>,
           \A c \in Conns : link'[c].data = link[c].data
    PROVE  Moved
<1>1. Wire' = Wire /\ Held' = Held
  BY Sizes DEF Wire, Held, Typed, LinksTyped, Conns
<1>2. Way' = Way
  BY <1>1 DEF Way
<1>. QED
  BY <1>2, WayTyped, LeftAsItIs DEF Moved

LEMMA ServeMoves ==
    ASSUME Typed, Calm, Wired, NEW c \in Conns, Serve(c)
    PROVE  Wired' /\ Moved
<1>1. \A d \in Conns : link'[d].slave = link[d].slave /\ link'[d].data = link[d].data
  <2>1. link'[c] = [link[c] EXCEPT !.master = "served"] /\ \A e \in Conns \ {c} : link'[e] = link[e]
    BY DEF Serve, Typed, LinksTyped
  <2>2. link[c] \in Link
    BY DEF Typed, LinksTyped
  <2> QED BY <2>1, <2>2 DEF Link
<1>2. UNCHANGED <<writer, at, hand, using, queue, shown>>
  BY DEF Serve, lineVars, sendVars, history
<1>3. Wired'
  BY <1>1, <1>2, Sizes DEF Wired, Typed, LinksTyped, Conns
<1>. QED
  BY <1>1, <1>2, <1>3, NothingMoves

LEMMA EndOfConnMoves ==
    ASSUME Typed, Calm, Wired, NEW c \in Conns, EndOfConn(c)
    PROVE  Wired' /\ Moved
<1>1. link'[c] = Ended(link[c]) /\ (\A e \in Conns \ {c} : link'[e] = link[e]) /\ link[c] \in Link
      /\ link[c].data = <<>>
  BY DEF EndOfConn, Typed, LinksTyped
<1>2. link'[c].data = <<>> /\ link'[c].slave = IF link[c].slave = "open" THEN "eof" ELSE link[c].slave
  BY <1>1, EndIsEnded
<1>3. UNCHANGED <<writer, at, hand, using, queue, shown>>
  BY DEF EndOfConn, lineVars, sendVars, history
<1>4. \A d \in Conns : link'[d].slave # "left"
  BY <1>1, <1>2, <1>3 DEF Wired
<1>5. \A d \in Conns : link'[d].data # <<>> => d = writer' /\ link'[d].slave = "open"
  BY <1>1, <1>2, <1>3 DEF Wired
<1>6. at'["run"] = "drain" =>
         using'["run"] = writer' /\ writer' # 0 /\ link'[writer'].slave \in {"open", "eof"}
  BY <1>1, <1>2, <1>3, Sizes DEF Wired, Typed, LinksTyped, Conns
<1>7. Wired'
  BY <1>3, <1>4, <1>5, <1>6 DEF Wired
<1>8. \A d \in Conns : link'[d].data = link[d].data
  BY <1>1, <1>2
<1>. QED
  BY <1>3, <1>7, <1>8, NothingMoves

LEMMA WriteMoves ==
    ASSUME Typed, Typed', Wired, WriteLine
    PROVE  /\ Wired'
           /\ written' = written + 1 /\ written' \in Lines
           /\ \/ Way' = Append(Way, written') /\ Range(Way') = Range(Way) \cup {written'}
                 /\ refused' = refused
              \/ Way' = Way /\ refused' = refused \cup {written'}
<1>1. written' = written + 1 /\ written' \in Lines
  BY Sizes DEF WriteLine, Lines, Typed, LinesTyped
<1>2. UNCHANGED <<at, hand, using, writer, link, shown>>
  BY DEF WriteLine, sendVars, history
<1>3. Wired'
  BY <1>2 DEF Wired
<1>4. Wire' = Wire /\ Held' = Held /\ shown' = shown
  BY <1>2 DEF Wire, Held
<1>5. CASE queue' = queue /\ refused' = refused \cup {written'}
  BY <1>1, <1>3, <1>4, <1>5 DEF Way
<1>6. CASE queue' = Append(queue, written') /\ refused' = refused
  <2>1. written' \in Sent
    BY <1>1 DEF Sent
  <2>2. Way' = Then(shown, Then(Wire, Then(Held, Append(queue, written'))))
    BY <1>4, <1>6 DEF Way
  <2>3. Way' = Append(Way, written') /\ Range(Append(Way, written')) = Range(Way) \cup {written'}
    <3> DEFINE e == <<written'>>
    <3>1. e \in Seq(Sent) /\ Append(queue, written') = Then(queue, e)
          /\ Append(Way, written') = Then(Way, e)
          /\ Range(Append(Way, written')) = Range(Way) \cup {written'}
      BY <2>1, WayTyped, AppendedLast
    <3> HIDE DEF e
    <3>2. Then(shown, Then(Wire, Then(Held, Then(queue, e))))
             = Then(Then(shown, Then(Wire, Then(Held, queue))), e)
      BY <3>1, WayTyped, GetsWritten
    <3>3. Then(shown, Then(Wire, Then(Held, queue))) = Way
      BY DEF Way
    <3> QED BY <2>2, <3>1, <3>2, <3>3
  <2> QED BY <1>1, <1>3, <1>6, <2>3
<1>. QED
  BY <1>5, <1>6 DEF WriteLine

-----------------------------------------------------------------------------
(***************************************************************************)
(* The invariant and the theorems                                          *)
(***************************************************************************)
Everything == 1 .. written \subseteq refused \cup Range(Way)

Flow == Calm => Wired /\ Ordered(Way, written) /\ (lost \/ gaveUp \/ Everything)

LEMMA CalmBefore ==
    ASSUME Typed, Typed', [Next]_vars, Calm'
    PROVE  Calm
<1>1. phase' = "running"
  BY DEF Typed, Lone, Calm
<1>2. phase = "running" /\ breaks = 0
  <2>1. CASE WriteLine
    BY <1>1, <2>1 DEF WriteLine, history, Calm
  <2>2. CASE \E x \in Sender : SenderStep(x)
    BY <1>1, <2>2 DEF SenderStep, Take, Retry, Open, OpenFails, Drain, history, Calm
  <2>3. CASE ServiceFails \/ Cancelled \/ ThiefEnds \/ RunEnds \/ StopEnds \/ ProcessExits
    BY <1>1, <2>3 DEF ServiceFails, Cancelled, ThiefEnds, RunEnds, StopEnds, ProcessExits, history, Calm
  <2>4. CASE \E c \in Conns : Serve(c) \/ Read(c) \/ EndOfConn(c) \/ Break(c)
    BY <1>1, <2>4, Sizes DEF Serve, Read, EndOfConn, Break, history, Calm, Typed, RestTyped
  <2>5. CASE UNCHANGED vars
    BY <1>1, <2>5 DEF vars, history, Calm
  <2> QED BY <2>1, <2>2, <2>3, <2>4, <2>5 DEF Next
<1>. QED
  BY <1>2 DEF Typed, Lone, Calm

\* What a worker or a sender has given up stays given up.
LEMMA TroubleStays ==
    ASSUME [Next]_vars, lost \/ gaveUp
    PROVE  lost' \/ gaveUp'
<1>1. CASE WriteLine
  BY <1>1 DEF WriteLine, history
<1>2. CASE \E x \in Sender : SenderStep(x)
  <2>1. PICK x \in Sender : SenderStep(x)
    BY <1>2
  <2>2. CASE Open(x)
    BY <2>2 DEF Open, history
  <2>4. ASSUME NEW lines, NEW q, Attempt(x, lines, q)
        PROVE  (lost' = lost \/ lost' = TRUE) /\ (gaveUp' = gaveUp \/ gaveUp' = TRUE)
    BY <2>4 DEF Attempt, Fails
  <2>5. CASE Take(x) \/ Retry(x)
    <3>1. (lost' = lost \/ lost' = TRUE) /\ (gaveUp' = gaveUp \/ gaveUp' = TRUE)
      BY <2>4, <2>5 DEF Take, Retry
    <3> QED BY <3>1
  <2>3. CASE OpenFails(x) \/ Drain(x)
    <3>1. lost' = lost /\ (gaveUp' = gaveUp \/ gaveUp' = TRUE)
      BY <2>3 DEF OpenFails, Drain, Fails
    <3> QED BY <3>1
  <2> QED BY <2>1, <2>2, <2>3, <2>5 DEF SenderStep
<1>3. CASE ServiceFails \/ Cancelled \/ ThiefEnds \/ RunEnds \/ StopEnds \/ ProcessExits
  BY <1>3 DEF ServiceFails, Cancelled, ThiefEnds, RunEnds, StopEnds, ProcessExits, history
<1>4. CASE \E c \in Conns : Serve(c) \/ Read(c) \/ EndOfConn(c) \/ Break(c)
  <2>1. PICK c \in Conns : Serve(c) \/ Read(c) \/ EndOfConn(c) \/ Break(c)
    BY <1>4
  <2>2. CASE EndOfConn(c)
    <3>1. lost' = lost /\ gaveUp' = gaveUp
      BY <2>2 DEF EndOfConn, history
    <3> QED BY <3>1
  <2>3. CASE Serve(c) \/ Read(c) \/ Break(c)
    BY <2>3 DEF Serve, Read, Break, history
  <2> QED BY <2>1, <2>2, <2>3
<1>5. CASE UNCHANGED vars
  BY <1>5 DEF vars, history
<1>. QED
  BY <1>1, <1>2, <1>3, <1>4, <1>5 DEF Next

\* While all is calm the lines of the network and of run move along their way.
LEMMA CalmMoves ==
    ASSUME Typed, Typed', Calm, Calm', Wired, [Next]_vars, ~WriteLine
    PROVE  Wired' /\ Moved /\ UNCHANGED <<written, refused>>
<1>1. CASE \E x \in Sender : SenderStep(x)
  BY <1>1, SenderMoves DEF SenderStep, Take, Retry, Open, OpenFails, Drain
<1>2. CASE ServiceFails \/ Cancelled \/ ThiefEnds \/ RunEnds \/ StopEnds \/ ProcessExits
  <2>1. phase = "running" /\ phase' = "running" /\ ~thief
    BY DEF Typed, Lone, Calm
  <2> QED BY <1>2, <2>1 DEF ServiceFails, Cancelled, ThiefEnds, RunEnds, StopEnds, ProcessExits
<1>3. CASE \E c \in Conns : Serve(c) \/ Read(c) \/ EndOfConn(c) \/ Break(c)
  <2>1. PICK c \in Conns : Serve(c) \/ Read(c) \/ EndOfConn(c) \/ Break(c)
    BY <1>3
  <2>2. ~Break(c)
    BY DEF Break, Calm
  <2>3. UNCHANGED <<written, refused>>
    BY <2>1, <2>2 DEF Serve, Read, EndOfConn, lineVars
  <2> QED BY <2>1, <2>2, <2>3, ServeMoves, ReadMoves, EndOfConnMoves
<1>4. CASE UNCHANGED vars
  <2>1. UNCHANGED <<written, refused, shown, writer, at, hand, queue, using, link>>
    BY <1>4 DEF vars, lineVars, sendVars, history
  <2>2. Wired'
    BY <2>1 DEF Wired
  <2> QED BY <2>1, <2>2, NothingMoves
<1>. QED
  BY <1>1, <1>2, <1>3, <1>4 DEF Next

LEMMA FlowStays ==
    ASSUME Typed, Typed', Flow, [Next]_vars
    PROVE  Flow'
<1> SUFFICES ASSUME Calm' PROVE Wired' /\ Ordered(Way', written') /\ (lost' \/ gaveUp' \/ Everything')
  BY DEF Flow
<1>1. Calm /\ Wired /\ Ordered(Way, written) /\ (lost \/ gaveUp \/ Everything)
  BY CalmBefore DEF Flow
<1>2. Way \in Seq(Sent) /\ written \in Nat /\ Warning \notin 1 .. written
  BY WayTyped, Sizes DEF Typed, LinesTyped, Warning
<1>3. CASE WriteLine
  <2>1. /\ Wired' /\ written' = written + 1 /\ written' \in Lines
        /\ \/ Way' = Append(Way, written') /\ Range(Way') = Range(Way) \cup {written'}
              /\ refused' = refused
           \/ Way' = Way /\ refused' = refused \cup {written'}
    BY <1>1, <1>3, WriteMoves
  <2>2. Ordered(Way, written + 1) /\ Ordered(Append(Way, written + 1), written + 1)
    BY <1>1, <1>2, <2>1, OrderedAppended
  <2>3. Ordered(Way', written')
    BY <2>1, <2>2
  <2>4. Everything => Everything'
    <3>1. 1 .. written' = 1 .. written \cup {written'}
      BY <1>2, <2>1
    <3> QED BY <2>1, <3>1 DEF Everything
  <2> QED BY <1>1, <2>1, <2>3, <2>4, TroubleStays
<1>4. CASE ~WriteLine
  <2>1. Wired' /\ Moved /\ written' = written /\ refused' = refused
    BY <1>1, <1>4, CalmMoves
  <2>2. Drops(Way, Way')
    BY <2>1, ShiftsDrop DEF Moved
  <2>3. Ordered(Way', written')
    BY <1>1, <1>2, <2>1, <2>2, DropsKeepOrder
  <2>4. CASE Shifts(Way, Way')
    <3>1. Range(Way) \subseteq Range(Way') \cup {Warning}
      BY <2>4, ShiftsKeepLines
    <3>2. Everything => Everything'
      BY <1>2, <2>1, <3>1 DEF Everything
    <3> QED BY <1>1, <2>1, <2>3, <3>2, TroubleStays
  <2>5. CASE lost' \/ gaveUp'
    BY <2>1, <2>3, <2>5
  <2> QED BY <2>1, <2>4, <2>5 DEF Moved
<1>. QED
  BY <1>3, <1>4

LEMMA FlowAtFirst == Init => Flow
<1> SUFFICES ASSUME Init PROVE Wired /\ Ordered(Way, written) /\ Everything
  BY DEF Flow
<1>1. Wired
  BY DEF Init, Wired
<1>2. Way = <<>>
  <2>1. Wire = <<>> /\ Held = <<>> /\ shown = <<>> /\ queue = <<>>
    BY DEF Init, Wire, Held
  <2>2. Then(<<>>, <<>>) = <<>>
    BY Joins
  <2> QED BY <2>1, <2>2 DEF Way
<1>3. Ordered(Way, written)
  BY <1>2 DEF Ordered
<1>4. 1 .. written = {}
  BY DEF Init
<1>. QED
  BY <1>1, <1>3, <1>4 DEF Everything

LEMMA FlowHolds == Spec => [](Typed /\ Flow)
<1>1. Init => Typed /\ Flow
  BY TypedAtFirst, FlowAtFirst
<1>2. Typed /\ Flow /\ [Next]_vars => (Typed /\ Flow)'
  BY TypedStays, FlowStays
<1>. QED
  BY <1>1, <1>2, PTL DEF Spec

\* However often an attempt fails and whichever connection the next batch takes,
\* the master shows the lines once each and in the order they were written, as
\* long as no connection breaks and run is the only sender.
THEOREM OrderIsKept == Spec => []ShownInOrder
<1>1. Typed /\ Flow => ShownInOrder
  <2> SUFFICES ASSUME Typed, Flow, Calm, NEW i \in 2 .. Len(shown)
               PROVE  shown[i - 1] < shown[i]
    BY TypedSplit DEF ShownInOrder, Calm
  <2> DEFINE r == Then(Wire, Then(Held, queue))
  <2>1. shown \in Seq(Sent) /\ shown \in Seq(Lines) /\ r \in Seq(Sent) /\ Len(shown) \in Nat
        /\ Len(r) \in Nat
    <3>1. shown \in Seq(Sent) /\ r \in Seq(Sent)
      BY WayTyped, Joins
    <3> QED BY <3>1, LenProperties DEF Typed, RestTyped
  <2>2. Way = shown \o r
    BY DEF Way, Then
  <2> HIDE DEF r
  <2>3. Len(Way) = Len(shown) + Len(r) /\ \A j \in 1 .. Len(shown) : Way[j] = shown[j]
    BY <2>1, <2>2, ConcatProperties
  <2>4. \A j \in 1 .. Len(shown) : shown[j] \in Lines
    BY <2>1, ElementOfSeq
  <2>5. i - 1 \in 1 .. Len(shown) /\ i \in 1 .. Len(shown) /\ i - 1 < i
    BY <2>1
  <2>6. i - 1 \in 1 .. Len(Way) /\ i \in 1 .. Len(Way)
    BY <2>1, <2>3, <2>5
  <2>7. Way[i - 1] # Warning /\ Way[i] # Warning
    BY <2>3, <2>4, <2>5 DEF Lines, Warning
  <2>8. Way[i - 1] < Way[i]
    BY <2>5, <2>6, <2>7 DEF Flow, Ordered
  <2> QED BY <2>3, <2>5, <2>8
<1>. QED
  BY <1>1, FlowHolds, PTL

\* No line vanishes: while the slave runs it is queued, in run's hand, on a
\* connection, shown, or was refused, unless a connection broke, a batch was written
\* on one that the master had ended, or was given up after its last attempt.
THEOREM NoneVanishes == Spec => []NothingVanishes
<1>1. Typed /\ Flow => NothingVanishes
  <2> SUFFICES ASSUME Typed, Flow, phase = "running", breaks = 0, ~lost, ~gaveUp
               PROVE  1 .. written \subseteq
                         UNION {Range(queue), Range(hand["run"]), refused, Range(shown),
                                UNION {Range(link[c].data) : c \in Conns}}
    BY DEF NothingVanishes
  <2>1. 1 .. written \subseteq refused \cup Range(Way)
    BY DEF Flow, Everything, Calm, Typed, Lone
  <2>2. Range(Way) = Range(shown) \cup (Range(Wire) \cup (Range(Held) \cup Range(queue)))
    <3>1. Then(Held, queue) \in Seq(Sent) /\ Then(Wire, Then(Held, queue)) \in Seq(Sent)
      BY WayTyped, Joins
    <3> QED BY <3>1, WayTyped, RangesJoin DEF Way
  <2>3. Range(<<>>) = {}
    BY DEF Range
  <2>4. Range(Held) \subseteq Range(hand["run"])
    BY <2>3 DEF Held
  <2>5. Range(Wire) \subseteq UNION {Range(link[c].data) : c \in Conns}
    <3>1. CASE writer = 0
      BY <2>3, <3>1 DEF Wire
    <3>2. CASE writer # 0
      BY <3>2, WriterIsThere DEF Wire, Typed
    <3> QED BY <3>1, <3>2
  <2> QED BY <2>1, <2>2, <2>4, <2>5
<1>. QED
  BY <1>1, FlowHolds, PTL
=============================================================================
