-------------------------- MODULE MongoShellProofs ---------------------------
(***************************************************************************)
(* Theorems about MongoShell, for any mounts, sessions and pieces of       *)
(* output: the terminal on display shows each piece of its session's       *)
(* output once, and a mongosh that nobody knows of is one that was         *)
(* replaced or whose start a reload kept from the window.                  *)
(*                                                                         *)
(* The output reaches a terminal by two ways, the text that the attach     *)
(* took from the buffer and the stream of events that follows it, and the  *)
(* answer with the text may come after the first of these events. The      *)
(* invariant names the number k of pieces where the one ends and the other *)
(* begins: Streamed says that what was heard, what is queued and what is   *)
(* about to be sent lie after k, in order and without a repetition,        *)
(* NothingIsLost that together they are all that was written after k, and  *)
(* Joining where the first k pieces are between the attach and the screen. *)
(* Around it, a mount waits for one answer only, and until a session       *)
(* streams all it wrote is in its buffer.                                  *)
(***************************************************************************)
EXTENDS MongoShell, SequenceFacts

MountRecord ==
    [phase : {"none", "ping", "start", "attach", "attached", "waiting", "ready"},
     session : ShowNo \cup {None}, answer : Seq(Nat), screen : Seq(Nat), live : Seq(Nat),
     listening : BOOLEAN]
ShellRecord == [state : {"none", "running", "exited", "removed"}, buffer : Seq(Nat), streaming : BOOLEAN]

\* The messages to the window.
ShellMessage ==
    [type : {"pong"}, of : ShowNo, body : BOOLEAN] \cup [type : {"started"}, of : ShowNo, body : ShowNo]
    \cup [type : {"failed", "exit"}, of : ShowNo, body : {None}]
    \cup [type : {"output"}, of : ShowNo, body : Nat]
    \cup [type : {"buffered"}, of : ShowNo, body : Seq(Nat)]

ShellTyped ==
    /\ tabOpen \in BOOLEAN /\ onDisplay \in BOOLEAN /\ shows \in 0 .. MaxShows
    /\ tabSession \in 1 .. shows \cup {None} /\ stopping \subseteq ShowNo
    /\ onDisplay => tabOpen /\ shows \in ShowNo
    /\ mounts \in [ShowNo -> MountRecord] /\ mongosh \in [ShowNo -> ShellRecord]
    /\ written \in [ShowNo -> Nat] /\ pumping \in [ShowNo -> Nat]
    /\ inbox \in Seq(ShellMessage)

\* A mount to come has done nothing, and a mount knows of no session that came after it.
NothingAhead ==
    /\ \A m \in ShowNo : m > shows => mounts[m].phase = "none" /\ mounts[m].session = None
    /\ \A m \in ShowNo : mounts[m].session # None => mounts[m].session <= m
    /\ \A i \in DOMAIN inbox : inbox[i].of <= shows

\* A mount waits for one answer.
Answers == {"pong", "started", "failed", "buffered"}
OneAnswer ==
    /\ \A i \in DOMAIN inbox : inbox[i].type \in Answers => mounts[inbox[i].of].phase = "waiting"
    /\ \A i, j \in DOMAIN inbox :
          inbox[i].type \in Answers /\ inbox[j].type \in Answers /\ inbox[i].of = inbox[j].of => i = j

\* A mount that has no session of its own yet, and one that has not asked for it.
Asks(m, box) ==
    mounts[m].phase \in {"none", "ping", "start"}
       \/ \E i \in DOMAIN box : box[i].of = m /\ box[i].type \in {"pong", "started", "failed"}
HasNotAsked(m, box) ==
    mounts[m].phase \in {"none", "ping", "start"}
       \/ \E i \in DOMAIN box : box[i].of = m /\ box[i].type = "pong"
AskingIsBlank ==
    \A m \in ShowNo :
        /\ Asks(m, inbox) => /\ mounts[m].screen = <<>> /\ mounts[m].live = <<>>
                             /\ ~mounts[m].listening /\ mounts[m].session # m
        /\ HasNotAsked(m, inbox) => mongosh[m].state = "none"
        /\ mounts[m].phase \in {"ping", "attach"} => mounts[m].session # None
        /\ \A i \in DOMAIN inbox :
              inbox[i].of = m /\ inbox[i].type = "pong" => mounts[m].session # None

\* The first k pieces of output.
Counted(k) == [i \in 1 .. k |-> i]

\* Until a session streams, all that it wrote is in its buffer.
NothingStreams ==
    \A s \in ShowNo :
        /\ ~mongosh[s].streaming =>
              /\ mongosh[s].buffer = Counted(written[s]) /\ pumping[s] = 0
              /\ \A i \in DOMAIN inbox : ~(inbox[i].type = "output" /\ inbox[i].of = s)
        /\ pumping[s] # 0 => pumping[s] = written[s]
        /\ mongosh[s].streaming =>
              s < shows \/ (mounts[s].session = s /\ mounts[s].phase # "attach")
ExitIsOfTheDead ==
    \A i \in DOMAIN inbox : inbox[i].type = "exit" => mongosh[inbox[i].of].state \in {"exited", "removed"}

\* What a session s streams after its first k pieces, when it has written w of them and
\* is about to send piece p (0 for none): heard, on its way, or about to be sent, in order.
IsOutput(e, s) == e.type = "output" /\ e.of = s
Streamed(s, k, live, box, w, p) ==
    /\ k <= w /\ (p # 0 => k < p /\ p = w)
    /\ \A i \in DOMAIN live : k < live[i] /\ live[i] <= w /\ (p # 0 => live[i] < p)
    /\ \A i, j \in DOMAIN live : i < j => live[i] < live[j]
    /\ \A i \in DOMAIN box : IsOutput(box[i], s) =>
          /\ k < box[i].body /\ box[i].body <= w /\ (p # 0 => box[i].body < p)
          /\ \A l \in DOMAIN live : live[l] < box[i].body
    /\ \A i, j \in DOMAIN box :
          i < j /\ IsOutput(box[i], s) /\ IsOutput(box[j], s) => box[i].body < box[j].body
\* And all of it.
NothingIsLost(s, k, live, box, w, p) ==
    \A q \in k + 1 .. w :
        \/ \E l \in DOMAIN live : live[l] = q
        \/ q = p
        \/ \E i \in DOMAIN box : IsOutput(box[i], s) /\ box[i].body = q

\* The first k pieces, from the attach of a mount to its screen.
Joining(s, k, one, box) ==
    \/ one.phase = "attached" /\ one.answer = Counted(k) /\ one.screen = one.live
    \/ /\ one.phase = "waiting" /\ one.screen = one.live
       /\ \A i \in DOMAIN box : box[i].type \in Answers /\ box[i].of = s =>
             box[i].type = "buffered" /\ box[i].body = Counted(k)
    \/ /\ one.phase = "ready" /\ IsInjective(one.screen)
       /\ Range(one.screen) = 1 .. k \cup Range(one.live)

\* A mount that is joined to a session of its own, which it may have found dead.
Shown(s, k) ==
    /\ Streamed(s, k, mounts[s].live, inbox, written[s], pumping[s])
    /\ Joining(s, k, mounts[s], inbox)
    /\ Alive(s) => /\ mounts[s].listening
                   /\ NothingIsLost(s, k, mounts[s].live, inbox, written[s], pumping[s])

\* The mount on display, with a session of its own.
OwnShell ==
    onDisplay /\ mounts[shows].session = shows =>
        \/ /\ mounts[shows].phase = "attach" /\ mounts[shows].screen = <<>> /\ mounts[shows].live = <<>>
           /\ Alive(shows) => mounts[shows].listening
        \/ /\ mongosh[shows].streaming \/ ~Known(shows)
           /\ \E k \in Nat : Shown(shows, k)

ShellInv ==
    /\ ShellTyped /\ NothingAhead /\ OneAnswer /\ AskingIsBlank /\ NothingStreams /\ ExitIsOfTheDead
    /\ OwnShell /\ OnlyReplacedIsOrphan

-----------------------------------------------------------------------------
(* The stream of a session.                                                 *)

\* The positions of a queue that has grown at its end.
LEMMA Grown ==
    ASSUME NEW T, NEW q \in Seq(T), NEW e \in T
    PROVE  /\ Append(q, e) \in Seq(T) /\ Len(q) \in Nat /\ DOMAIN q = 1 .. Len(q)
           /\ DOMAIN Append(q, e) = 1 .. Len(q) + 1
           /\ Append(q, e)[Len(q) + 1] = e /\ \A i \in DOMAIN q : Append(q, e)[i] = q[i]
           /\ \A i \in DOMAIN Append(q, e) : i \in Nat /\ (i \in DOMAIN q \/ i = Len(q) + 1)
           /\ \A i \in DOMAIN q : i \in DOMAIN Append(q, e) /\ i < Len(q) + 1
           /\ Len(q) + 1 \in DOMAIN Append(q, e)
<1>1. /\ Append(q, e) \in Seq(T) /\ Len(q) \in Nat /\ DOMAIN q = 1 .. Len(q)
      /\ DOMAIN Append(q, e) = 1 .. Len(q) + 1
      /\ Append(q, e)[Len(q) + 1] = e /\ \A i \in DOMAIN q : Append(q, e)[i] = q[i]
  BY Appended
<1>2. QED
  BY <1>1

\* The positions of a queue that has lost its head.
LEMMA Shrunk ==
    ASSUME NEW T, NEW q \in Seq(T), q # <<>>
    PROVE  /\ Head(q) \in T /\ Tail(q) \in Seq(T) /\ Head(q) = q[1] /\ 1 \in DOMAIN q
           /\ \A i \in DOMAIN q : i \in Nat /\ (i = 1 \/ (i - 1 \in DOMAIN Tail(q) /\ Tail(q)[i - 1] = q[i] /\ 1 < i))
           /\ \A i \in DOMAIN Tail(q) : i \in Nat /\ i + 1 \in DOMAIN q /\ Tail(q)[i] = q[i + 1] /\ 1 < i + 1
<1>1. /\ Head(q) \in T /\ Tail(q) \in Seq(T) /\ Head(q) = q[1]
      /\ \A i \in DOMAIN q : i = 1 \/ (i - 1 \in DOMAIN Tail(q) /\ Tail(q)[i - 1] = q[i])
      /\ \A i \in DOMAIN Tail(q) : i + 1 \in DOMAIN q /\ Tail(q)[i] = q[i + 1]
  BY HeadThenTail
<1>2. 1 \in DOMAIN q /\ \A i \in DOMAIN q : i \in Nat /\ i >= 1
  OBVIOUS
<1>3. \A i \in DOMAIN Tail(q) : i \in Nat /\ i >= 1
  BY <1>1
<1>4. QED
  BY <1>1, <1>2, <1>3

\* A message that is no output of the session changes nothing of its stream.
LEMMA OtherSent ==
    ASSUME NEW s, NEW k \in Nat, NEW live \in Seq(Nat), NEW box \in Seq(ShellMessage), NEW w \in Nat,
           NEW p \in Nat, NEW e \in ShellMessage, ~IsOutput(e, s), Streamed(s, k, live, box, w, p)
    PROVE  /\ Streamed(s, k, live, Append(box, e), w, p)
           /\ NothingIsLost(s, k, live, box, w, p) => NothingIsLost(s, k, live, Append(box, e), w, p)
<1> PICK grown : grown = Append(box, e)
  OBVIOUS
<1>1. /\ \A i \in DOMAIN grown : i \in Nat /\ ((i \in DOMAIN box /\ grown[i] = box[i]) \/ grown[i] = e)
      /\ \A i \in DOMAIN box : i \in DOMAIN grown /\ grown[i] = box[i]
  BY Grown
<1>2. Streamed(s, k, live, grown, w, p)
  BY <1>1 DEF Streamed
<1>3. NothingIsLost(s, k, live, box, w, p) => NothingIsLost(s, k, live, grown, w, p)
  BY <1>1 DEF NothingIsLost
<1>4. QED
  BY <1>2, <1>3

\* Nor does one that leaves the queue.
LEMMA OtherTaken ==
    ASSUME NEW s, NEW k \in Nat, NEW live \in Seq(Nat), NEW box \in Seq(ShellMessage), NEW w \in Nat,
           NEW p \in Nat, box # <<>>, Streamed(s, k, live, box, w, p)
    PROVE  /\ Streamed(s, k, live, Tail(box), w, p)
           /\ NothingIsLost(s, k, live, box, w, p) /\ ~IsOutput(Head(box), s) =>
                 NothingIsLost(s, k, live, Tail(box), w, p)
<1> PICK rest : rest = Tail(box)
  OBVIOUS
<1> PICK e : e = Head(box)
  OBVIOUS
<1>1. /\ \A i \in DOMAIN rest : i \in Nat /\ i + 1 \in DOMAIN box /\ rest[i] = box[i + 1]
      /\ \A i \in DOMAIN box : box[i] = e \/ (i - 1 \in DOMAIN rest /\ rest[i - 1] = box[i])
  BY Shrunk
<1>2. \A i, j \in DOMAIN rest : i < j => i + 1 < j + 1
  BY <1>1
<1>3. Streamed(s, k, live, rest, w, p)
  BY <1>1, <1>2 DEF Streamed
<1>4. NothingIsLost(s, k, live, box, w, p) /\ ~IsOutput(e, s) => NothingIsLost(s, k, live, rest, w, p)
  <2>1. \A i \in DOMAIN box : box[i] = e \/ \E j \in DOMAIN rest : rest[j] = box[i]
    BY <1>1
  <2>2. QED
    BY <2>1, ZenonT(60) DEF NothingIsLost
<1>5. QED
  BY <1>3, <1>4

\* A piece is written, and about to be sent.
LEMMA PieceWritten ==
    ASSUME NEW s, NEW k \in Nat, NEW live \in Seq(Nat), NEW box \in Seq(ShellMessage), NEW w \in Nat,
           Streamed(s, k, live, box, w, 0),
           \A i \in DOMAIN box : IsOutput(box[i], s) => box[i].body \in Nat
    PROVE  /\ Streamed(s, k, live, box, w + 1, w + 1)
           /\ NothingIsLost(s, k, live, box, w, 0) => NothingIsLost(s, k, live, box, w + 1, w + 1)
<1>1. \A i \in DOMAIN live : live[i] \in Nat
  OBVIOUS
<1>2. Streamed(s, k, live, box, w + 1, w + 1)
  BY <1>1 DEF Streamed
<1>3. \A q \in k + 1 .. w + 1 : q = w + 1 \/ (q \in k + 1 .. w /\ q # 0)
  OBVIOUS
<1>4. NothingIsLost(s, k, live, box, w, 0) => NothingIsLost(s, k, live, box, w + 1, w + 1)
  BY <1>3 DEF NothingIsLost
<1>5. QED
  BY <1>2, <1>4

\* It is sent.
LEMMA PieceSent ==
    ASSUME NEW s \in ShowNo, NEW k \in Nat, NEW live \in Seq(Nat), NEW box \in Seq(ShellMessage), NEW w \in Nat,
           NEW p \in Nat, p # 0, Streamed(s, k, live, box, w, p),
           NEW e \in ShellMessage, IsOutput(e, s), e.body = p
    PROVE  /\ Streamed(s, k, live, Append(box, e), w, 0)
           /\ NothingIsLost(s, k, live, box, w, p) => NothingIsLost(s, k, live, Append(box, e), w, 0)
<1> PICK grown : grown = Append(box, e)
  OBVIOUS
<1> PICK n \in Nat : n = Len(box) + 1
  OBVIOUS
<1>1. /\ \A i \in DOMAIN grown : i \in Nat /\ ((i \in DOMAIN box /\ grown[i] = box[i]) \/ (i = n /\ grown[i] = e))
      /\ \A i \in DOMAIN box : i \in DOMAIN grown /\ grown[i] = box[i] /\ i < n /\ i \in Nat
      /\ n \in DOMAIN grown /\ grown[n] = e
  BY Grown
<1>2. /\ k < p /\ p = w
      /\ \A i \in DOMAIN live : k < live[i] /\ live[i] <= w /\ live[i] < p
      /\ \A i, j \in DOMAIN live : i < j => live[i] < live[j]
      /\ \A i \in DOMAIN box : IsOutput(box[i], s) =>
          /\ k < box[i].body /\ box[i].body <= w /\ box[i].body < p
          /\ \A l \in DOMAIN live : live[l] < box[i].body
      /\ \A i, j \in DOMAIN box :
          i < j /\ IsOutput(box[i], s) /\ IsOutput(box[j], s) => box[i].body < box[j].body
  BY DEF Streamed
<1>3. \A i \in DOMAIN grown : IsOutput(grown[i], s) =>
          /\ k < grown[i].body /\ grown[i].body <= w
          /\ \A l \in DOMAIN live : live[l] < grown[i].body
  BY <1>1, <1>2
<1>4. ASSUME NEW i \in DOMAIN grown, NEW j \in DOMAIN grown, i < j, IsOutput(grown[i], s),
             IsOutput(grown[j], s)
      PROVE  grown[i].body < grown[j].body
  <2>1. i \in DOMAIN box /\ grown[i] = box[i]
    BY <1>1, <1>4
  <2>2. QED
    BY <1>1, <1>2, <1>4, <2>1
<1>5. Streamed(s, k, live, grown, w, 0)
  BY <1>2, <1>3, <1>4 DEF Streamed
<1>6. NothingIsLost(s, k, live, box, w, p) => NothingIsLost(s, k, live, grown, w, 0)
  BY <1>1 DEF NothingIsLost
<1>7. QED
  BY <1>5, <1>6

\* It is heard.
LEMMA PieceHeard ==
    ASSUME NEW s \in ShowNo, NEW k \in Nat, NEW live \in Seq(Nat), NEW box \in Seq(ShellMessage), NEW w \in Nat,
           NEW p \in Nat, box # <<>>, Streamed(s, k, live, box, w, p), IsOutput(Head(box), s),
           NEW b \in Nat, b = Head(box).body
    PROVE  /\ Streamed(s, k, Append(live, b), Tail(box), w, p)
           /\ NothingIsLost(s, k, live, box, w, p) =>
                 NothingIsLost(s, k, Append(live, b), Tail(box), w, p)
           /\ k < b /\ \A l \in DOMAIN live : live[l] < b
<1> PICK rest : rest = Tail(box)
  OBVIOUS
<1> PICK heard : heard = Append(live, b)
  OBVIOUS
<1> PICK n \in Nat : n = Len(live) + 1
  OBVIOUS
<1>1. /\ \A i \in DOMAIN rest : i \in Nat /\ i + 1 \in DOMAIN box /\ rest[i] = box[i + 1] /\ 1 < i + 1
      /\ \A i \in DOMAIN box : box[i] = Head(box) \/ (i - 1 \in DOMAIN rest /\ rest[i - 1] = box[i])
      /\ 1 \in DOMAIN box /\ IsOutput(box[1], s) /\ box[1].body = b
  BY Shrunk
<1>2. /\ \A i \in DOMAIN heard : i \in Nat /\ ((i \in DOMAIN live /\ heard[i] = live[i]) \/ (i = n /\ heard[i] = b))
      /\ \A i \in DOMAIN live : i \in DOMAIN heard /\ heard[i] = live[i] /\ i < n /\ i \in Nat
      /\ n \in DOMAIN heard /\ heard[n] = b
  BY Grown, SMTT(30)
<1>3. /\ k <= w /\ (p # 0 => k < p /\ p = w)
      /\ \A i \in DOMAIN live : k < live[i] /\ live[i] <= w /\ (p # 0 => live[i] < p)
      /\ \A i, j \in DOMAIN live : i < j => live[i] < live[j]
      /\ \A i \in DOMAIN box : IsOutput(box[i], s) =>
          /\ k < box[i].body /\ box[i].body <= w /\ (p # 0 => box[i].body < p)
          /\ \A l \in DOMAIN live : live[l] < box[i].body
      /\ \A i, j \in DOMAIN box :
          i < j /\ IsOutput(box[i], s) /\ IsOutput(box[j], s) => box[i].body < box[j].body
  BY DEF Streamed
<1>4. k < b /\ b <= w /\ (p # 0 => b < p) /\ \A l \in DOMAIN live : live[l] < b
  BY <1>1, <1>3
<1>5. \A i \in DOMAIN rest : IsOutput(rest[i], s) => b < rest[i].body
  BY <1>1, <1>3
<1>6. \A i \in DOMAIN heard : k < heard[i] /\ heard[i] <= w /\ (p # 0 => heard[i] < p)
  BY <1>2, <1>3, <1>4
<1>7. ASSUME NEW i \in DOMAIN heard, NEW j \in DOMAIN heard, i < j PROVE heard[i] < heard[j]
  BY <1>2, <1>3, <1>4, <1>7, SMTT(30)
<1>8. \A i \in DOMAIN rest : IsOutput(rest[i], s) =>
          /\ k < rest[i].body /\ rest[i].body <= w /\ (p # 0 => rest[i].body < p)
          /\ \A l \in DOMAIN heard : heard[l] < rest[i].body
  BY <1>1, <1>2, <1>3, <1>5, SMTT(30)
<1>9. \A i, j \in DOMAIN rest :
          i < j /\ IsOutput(rest[i], s) /\ IsOutput(rest[j], s) => rest[i].body < rest[j].body
  BY <1>1, <1>3
<1>10. Streamed(s, k, heard, rest, w, p)
  BY <1>3, <1>6, <1>7, <1>8, <1>9 DEF Streamed
<1>11. NothingIsLost(s, k, live, box, w, p) => NothingIsLost(s, k, heard, rest, w, p)
  <2>1. \A i \in DOMAIN box : box[i] = Head(box) \/ \E j \in DOMAIN rest : rest[j] = box[i]
    BY <1>1
  <2>2. \A i \in DOMAIN box : box[i].body = b \/ \E j \in DOMAIN rest : rest[j] = box[i]
    BY <2>1
  <2>3. \A l \in DOMAIN live : \E i \in DOMAIN heard : heard[i] = live[l]
    BY <1>2
  <2>4. \E i \in DOMAIN heard : heard[i] = b
    BY <1>2
  <2>5. SUFFICES ASSUME NothingIsLost(s, k, live, box, w, p), NEW q \in k + 1 .. w
                 PROVE  \/ \E l \in DOMAIN heard : heard[l] = q
                        \/ q = p
                        \/ \E i \in DOMAIN rest : IsOutput(rest[i], s) /\ rest[i].body = q
    BY DEF NothingIsLost
  <2>6. CASE \E l \in DOMAIN live : live[l] = q
    BY <2>3, <2>6
  <2>7. ASSUME NEW i \in DOMAIN box, IsOutput(box[i], s), box[i].body = q
        PROVE  \/ \E l \in DOMAIN heard : heard[l] = q
               \/ \E j \in DOMAIN rest : IsOutput(rest[j], s) /\ rest[j].body = q
    <3>1. CASE q = b
      BY <2>4, <3>1
    <3>2. CASE q # b
      <4>1. PICK j \in DOMAIN rest : rest[j] = box[i]
        BY <2>2, <2>7, <3>2
      <4>2. QED
        BY <2>7, <4>1
    <3>3. QED
      BY <3>1, <3>2
  <2>8. QED
    BY <2>5, <2>6, <2>7 DEF NothingIsLost
<1>12. QED
  BY <1>4, <1>10, <1>11

\* Nothing has been streamed.
LEMMA StreamBegins ==
    ASSUME NEW s, NEW box, NEW w \in Nat, \A i \in DOMAIN box : ~IsOutput(box[i], s)
    PROVE  Streamed(s, w, <<>>, box, w, 0) /\ NothingIsLost(s, w, <<>>, box, w, 0)
  BY Nothing DEF Streamed, NothingIsLost

-----------------------------------------------------------------------------
(* What a step leaves alone.                                                *)

\* The messages after a step, when E are the new ones.
Sends(E) == \/ inbox' = inbox /\ E = {}
            \/ \E e \in ShellMessage : inbox' = Append(inbox, e) /\ E = {e}

\* The positions of the queue after a step that sends.
LEMMA SentAt ==
    ASSUME inbox \in Seq(ShellMessage), NEW E, Sends(E)
    PROVE  /\ inbox' \in Seq(ShellMessage)
           /\ \A i \in DOMAIN inbox : i \in DOMAIN inbox' /\ inbox'[i] = inbox[i]
           /\ \A i \in DOMAIN inbox' : i \in DOMAIN inbox \/ inbox'[i] \in E
           /\ \A x \in E : \E i \in DOMAIN inbox' : inbox'[i] = x
           /\ \A x \in Range(inbox) \cup E : x \in Range(inbox')
           /\ \A i, j \in DOMAIN inbox' : i \notin DOMAIN inbox /\ j \notin DOMAIN inbox => i = j
<1>1. CASE inbox' = inbox /\ E = {}
  BY <1>1
<1>2. ASSUME NEW e \in ShellMessage, inbox' = Append(inbox, e), E = {e}
      PROVE  /\ inbox' \in Seq(ShellMessage)
             /\ \A i \in DOMAIN inbox : i \in DOMAIN inbox' /\ inbox'[i] = inbox[i]
             /\ \A i \in DOMAIN inbox' : i \in DOMAIN inbox \/ inbox'[i] \in E
             /\ \A x \in E : \E i \in DOMAIN inbox' : inbox'[i] = x
             /\ \A x \in Range(inbox) \cup E : x \in Range(inbox')
             /\ \A i, j \in DOMAIN inbox' : i \notin DOMAIN inbox /\ j \notin DOMAIN inbox => i = j
  <2> PICK grown : grown = Append(inbox, e)
    OBVIOUS
  <2>1. /\ grown \in Seq(ShellMessage)
        /\ grown[Len(inbox) + 1] = e /\ \A i \in DOMAIN inbox : grown[i] = inbox[i]
        /\ \A i \in DOMAIN grown : i \in DOMAIN inbox \/ i = Len(inbox) + 1
        /\ \A i \in DOMAIN inbox : i \in DOMAIN grown
        /\ Len(inbox) + 1 \in DOMAIN grown
    BY Grown
  <2>2. \A x \in Range(inbox) \cup E : x \in Range(grown)
    BY <1>2, <2>1 DEF Range
  <2>3. QED
    BY <1>2, <2>1, <2>2
<1>3. QED
  BY <1>1, <1>2 DEF Sends

\* A step of the native side that is no answer to a mount: the mounts' part.
LEMMA MountsKept ==
    ASSUME ShellInv, UNCHANGED <<shows, mounts>>, NEW E, Sends(E),
           \A e \in E : e.type \notin Answers /\ e.of <= shows,
           \A s \in ShowNo : mongosh[s].state = "none" => mongosh'[s].state = "none"
    PROVE  NothingAhead' /\ OneAnswer' /\ AskingIsBlank'
<1>1. /\ \A i \in DOMAIN inbox : i \in DOMAIN inbox' /\ inbox'[i] = inbox[i]
      /\ \A i \in DOMAIN inbox' : i \in DOMAIN inbox \/ inbox'[i] \in E
  BY SentAt DEF ShellInv, ShellTyped
<1>2. NothingAhead'
  BY <1>1 DEF ShellInv, NothingAhead
<1>3. \A i \in DOMAIN inbox' : inbox'[i].type \in Answers => i \in DOMAIN inbox /\ inbox'[i] = inbox[i]
  BY <1>1
<1>4. OneAnswer'
  BY <1>3 DEF ShellInv, OneAnswer
<1>5. /\ \A m \in ShowNo : Asks(m, inbox') => Asks(m, inbox)
      /\ \A m \in ShowNo : HasNotAsked(m, inbox') => HasNotAsked(m, inbox)
  BY <1>3 DEF Asks, HasNotAsked, Answers
<1>6. \A i \in DOMAIN inbox' : inbox'[i].type = "pong" => i \in DOMAIN inbox /\ inbox'[i] = inbox[i]
  BY <1>3 DEF Answers
<1>7. /\ \A m \in ShowNo : Asks(m, inbox)' => Asks(m, inbox)
      /\ \A m \in ShowNo : HasNotAsked(m, inbox)' => HasNotAsked(m, inbox)
  BY <1>5 DEF Asks, HasNotAsked
<1>8. ASSUME NEW m \in ShowNo
      PROVE  /\ Asks(m, inbox)' => /\ mounts[m].screen = <<>> /\ mounts[m].live = <<>>
                                   /\ ~mounts[m].listening /\ mounts[m].session # m
             /\ HasNotAsked(m, inbox)' => mongosh'[m].state = "none"
             /\ mounts[m].phase \in {"ping", "attach"} => mounts[m].session # None
             /\ \A i \in DOMAIN inbox' :
                  inbox'[i].of = m /\ inbox'[i].type = "pong" => mounts[m].session # None
  BY <1>6, <1>7 DEF ShellInv, AskingIsBlank
<1>9. AskingIsBlank'
  BY <1>8 DEF AskingIsBlank
<1>10. QED
  BY <1>2, <1>4, <1>9

\* The mount on display keeps its story when nothing of its own changes, but that its
\* session may have died.
LEMMA OwnKept ==
    ASSUME OwnShell, UNCHANGED <<shows, onDisplay>>, NEW one, onDisplay => one = mounts[shows] /\ mounts'[shows] = one,
           onDisplay =>
              /\ mongosh[shows].streaming => mongosh'[shows].streaming
              /\ ~Known(shows) => ~Known(shows)'
              /\ Alive(shows)' => Alive(shows)
              /\ written'[shows] = written[shows] /\ pumping'[shows] = pumping[shows]
              /\ \A k \in Nat :
                    /\ Streamed(shows, k, one.live, inbox, written[shows], pumping[shows]) =>
                       /\ Streamed(shows, k, one.live, inbox', written[shows], pumping[shows])
                       /\ /\ Alive(shows)'
                          /\ NothingIsLost(shows, k, one.live, inbox, written[shows], pumping[shows])
                          => NothingIsLost(shows, k, one.live, inbox', written[shows], pumping[shows])
                    /\ Joining(shows, k, one, inbox) => Joining(shows, k, one, inbox')
    PROVE  OwnShell'
<1> SUFFICES ASSUME onDisplay, one.session = shows
             PROVE  OwnShell'
  BY DEF OwnShell
<1> PICK m : m = shows
  OBVIOUS
<1>1. mounts[m] = one /\ mounts'[m] = one /\ shows' = m
  OBVIOUS
<1>2. CASE one.phase = "attach" /\ one.screen = <<>> /\ one.live = <<>> /\ (Alive(m) => one.listening)
  BY <1>1, <1>2 DEF OwnShell, Alive
<1>3. ASSUME mongosh[m].streaming \/ ~Known(m), NEW k \in Nat, Shown(m, k)
      PROVE  OwnShell'
  <2>1. /\ Streamed(m, k, one.live, inbox, written[m], pumping[m]) /\ Joining(m, k, one, inbox)
        /\ Alive(m) => one.listening /\ NothingIsLost(m, k, one.live, inbox, written[m], pumping[m])
    BY <1>1, <1>3 DEF Shown
  <2>2. /\ Streamed(m, k, one.live, inbox', written'[m], pumping'[m]) /\ Joining(m, k, one, inbox')
        /\ Alive(m)' => one.listening /\ NothingIsLost(m, k, one.live, inbox', written'[m], pumping'[m])
    BY <1>1, <2>1
  <2>3. Shown(m, k)'
    BY <1>1, <2>2 DEF Shown, Streamed, NothingIsLost, Joining, Alive
  <2>4. mongosh'[m].streaming \/ ~Known(m)'
    BY <1>1, <1>3 DEF Known
  <2>5. QED
    BY <1>1, <2>3, <2>4 DEF OwnShell, Known
<1>4. QED
  BY <1>1, <1>2, <1>3 DEF OwnShell

\* A mount's part in its answers is not changed by other messages.
LEMMA OtherMessages ==
    ASSUME NEW s, NEW k, NEW one, NEW box, NEW now,
           \A i \in DOMAIN now : now[i].type \in Answers /\ now[i].of = s =>
              \E j \in DOMAIN box : box[j] = now[i],
           Joining(s, k, one, box)
    PROVE  Joining(s, k, one, now)
  BY DEF Joining

\* A step that sends what is neither an answer nor the output of the session on display.
LEMMA OwnSent ==
    ASSUME ShellInv, UNCHANGED <<shows, onDisplay, mounts>>, NEW E, Sends(E),
           \A e \in E : e.type \notin Answers /\ ~(onDisplay /\ IsOutput(e, shows)),
           onDisplay =>
              /\ mongosh[shows].streaming => mongosh'[shows].streaming
              /\ ~Known(shows) => ~Known(shows)'
              /\ Alive(shows)' => Alive(shows)
              /\ written'[shows] = written[shows] /\ pumping'[shows] = pumping[shows]
    PROVE  OwnShell'
<1> SUFFICES ASSUME onDisplay PROVE OwnShell'
  BY DEF OwnShell
<1> PICK one : one = mounts[shows]
  OBVIOUS
<1>1. /\ inbox \in Seq(ShellMessage) /\ one.live \in Seq(Nat) /\ written[shows] \in Nat
      /\ pumping[shows] \in Nat /\ shows \in ShowNo /\ OwnShell
  BY DEF ShellInv, ShellTyped, MountRecord
<1>2. ASSUME NEW k \in Nat, Streamed(shows, k, one.live, inbox, written[shows], pumping[shows])
      PROVE  /\ Streamed(shows, k, one.live, inbox', written[shows], pumping[shows])
             /\ NothingIsLost(shows, k, one.live, inbox, written[shows], pumping[shows]) =>
                   NothingIsLost(shows, k, one.live, inbox', written[shows], pumping[shows])
  <2>1. CASE inbox' = inbox
    BY <1>2, <2>1
  <2>2. ASSUME NEW e \in ShellMessage, inbox' = Append(inbox, e), E = {e}
        PROVE  /\ Streamed(shows, k, one.live, inbox', written[shows], pumping[shows])
               /\ NothingIsLost(shows, k, one.live, inbox, written[shows], pumping[shows]) =>
                     NothingIsLost(shows, k, one.live, inbox', written[shows], pumping[shows])
    <3>1. ~IsOutput(e, shows)
      BY <2>2
    <3>2. QED
      BY <1>1, <1>2, <2>2, <3>1, OtherSent
  <2>3. QED
    BY <2>1, <2>2 DEF Sends
<1>3. ASSUME NEW k \in Nat, Joining(shows, k, one, inbox) PROVE Joining(shows, k, one, inbox')
  <2>1. \A i \in DOMAIN inbox' : inbox'[i].type \in Answers => \E j \in DOMAIN inbox : inbox[j] = inbox'[i]
    BY <1>1, SentAt
  <2>2. QED
    BY <1>3, <2>1, OtherMessages
<1>4. QED
  BY <1>1, <1>2, <1>3, OwnKept

\* Every shell that runs stays known, when none begins and no reference is given up.
LEMMA OrphansKept ==
    ASSUME ShellInv, UNCHANGED <<tabOpen, tabSession, unheard, replaced>>,
           \A s \in ShowNo : /\ Alive(s)' => Alive(s)
                             /\ Alive(s)' /\ s \in stopping => s \in stopping',
           \A x \in Range(inbox) : x.type = "started" => x \in Range(inbox')
    PROVE  OnlyReplacedIsOrphan'
<1> SUFFICES ASSUME NEW s \in ShowNo, Alive(s)' PROVE Referenced(s)' \/ s \in unheard' \cup replaced'
  BY DEF OnlyReplacedIsOrphan
<1>1. Referenced(s) \/ s \in unheard \cup replaced
  BY DEF ShellInv, OnlyReplacedIsOrphan
<1>2. Message("started", s, s).type = "started"
  BY DEF Message
<1>3. Message("started", s, s) \in Range(inbox) => Message("started", s, s) \in Range(inbox')
  BY <1>2
<1>4. QED
  BY <1>1, <1>3 DEF Referenced, Message

-----------------------------------------------------------------------------
(* The native side.                                                         *)

\* One more piece in the buffer.
LEMMA CountedGrows ==
    ASSUME NEW w \in Nat
    PROVE  Counted(w) \in Seq(Nat) /\ Append(Counted(w), w + 1) = Counted(w + 1)
<1>1. Counted(w) \in Seq(Nat) /\ Len(Counted(w)) = w
  BY DEF Counted
<1>2. Counted(w + 1) \in Seq(Nat) /\ Len(Counted(w + 1)) = w + 1
  BY DEF Counted
<1>3. Append(Counted(w), w + 1) \in Seq(Nat) /\ Len(Append(Counted(w), w + 1)) = w + 1
  BY <1>1
<1>4. ASSUME NEW i \in 1 .. w + 1 PROVE Append(Counted(w), w + 1)[i] = Counted(w + 1)[i]
  <2>1. CASE i = w + 1
    BY <1>1, <2>1 DEF Counted
  <2>2. CASE i \in 1 .. w
    BY <1>1, <2>2 DEF Counted
  <2>3. i = w + 1 \/ i \in 1 .. w
    OBVIOUS
  <2>4. QED
    BY <2>1, <2>2, <2>3
<1>5. QED
  <2>1. PICK a, b : a = Append(Counted(w), w + 1) /\ b = Counted(w + 1)
    OBVIOUS
  <2>2. a = b
    BY <1>2, <1>3, <1>4, <2>1, SeqEqual
  <2>3. QED
    BY <1>1, <2>1, <2>2

\* The facts of the types, at a session and at a mount.
LEMMA ShellTypes ==
    ASSUME ShellInv
    PROVE  /\ inbox \in Seq(ShellMessage)
           /\ \A s \in ShowNo : /\ s \in Nat /\ s # None /\ mongosh[s] \in ShellRecord /\ written[s] \in Nat
                                /\ pumping[s] \in Nat /\ mounts[s] \in MountRecord
           /\ onDisplay => shows \in ShowNo /\ tabOpen
           /\ shows \in Nat
           /\ \A i \in DOMAIN inbox : inbox[i] \in ShellMessage /\ inbox[i].of \in ShowNo
<1>1. inbox \in Seq(ShellMessage)
  BY DEF ShellInv, ShellTyped
<1>2. \A i \in DOMAIN inbox : inbox[i] \in ShellMessage
  BY <1>1
<1>3. \A e \in ShellMessage : e.of \in ShowNo
  BY DEF ShellMessage
<1>4. QED
  BY <1>1, <1>2, <1>3, ShellAssumption DEF ShellInv, ShellTyped, ShowNo

\* A piece is written to the buffer, or is about to be sent.
LEMMA PumpStep == ASSUME ShellInv, NEW s \in ShowNo, PumpShell(s) PROVE ShellInv'
<1> PICK w : w = written[s]
  OBVIOUS
<1>1. /\ w \in Nat /\ mongosh[s].state \in {"running", "exited"} /\ pumping[s] = 0
      /\ UNCHANGED <<tabVars, mounts, inbox, stopping>>
      /\ written' = [written EXCEPT ![s] = w + 1]
  BY ShellTypes DEF PumpShell
<1>2. /\ written' \in [ShowNo -> Nat] /\ written'[s] = w + 1 /\ \A t \in ShowNo \ {s} : written'[t] = written[t]
  BY <1>1 DEF ShellInv, ShellTyped
<1>3. /\ mongosh' \in [ShowNo -> ShellRecord] /\ pumping' \in [ShowNo -> Nat]
      /\ \A t \in ShowNo : mongosh'[t].state = mongosh[t].state /\ mongosh'[t].streaming = mongosh[t].streaming
      /\ \A t \in ShowNo \ {s} : mongosh'[t] = mongosh[t] /\ pumping'[t] = pumping[t]
      /\ mongosh[s].streaming => pumping'[s] = w + 1
      /\ ~mongosh[s].streaming => pumping'[s] = 0 /\ mongosh'[s].buffer = Append(mongosh[s].buffer, w + 1)
  <2>1. CASE mongosh[s].streaming
    <3>1. mongosh' = mongosh /\ pumping' = [pumping EXCEPT ![s] = w + 1]
      BY <1>2, <2>1 DEF PumpShell
    <3>2. QED
      BY <1>1, <2>1, <3>1 DEF ShellInv, ShellTyped
  <2>2. CASE ~mongosh[s].streaming
    <3>1. mongosh' = [mongosh EXCEPT ![s].buffer = Append(mongosh[s].buffer, w + 1)] /\ pumping' = pumping
      BY <1>2, <2>2 DEF PumpShell
    <3>2. PICK r : r = [mongosh[s] EXCEPT !.buffer = Append(mongosh[s].buffer, w + 1)]
      OBVIOUS
    <3>3. Append(mongosh[s].buffer, w + 1) \in Seq(Nat)
      BY <1>1, ShellTypes DEF ShellRecord
    <3>4. /\ r \in ShellRecord /\ r.state = mongosh[s].state /\ r.streaming = mongosh[s].streaming
          /\ r.buffer = Append(mongosh[s].buffer, w + 1)
      BY <3>2, <3>3, ShellTypes DEF ShellRecord
    <3>5. mongosh' = [mongosh EXCEPT ![s] = r]
      BY <3>1, <3>2
    <3>6. QED
      BY <1>1, <2>2, <3>1, <3>4, <3>5 DEF ShellInv, ShellTyped
  <2>3. QED
    BY <2>1, <2>2
<1>4. PICK E : E = {}
  OBVIOUS
<1>5. Sends(E)
  BY <1>1, <1>4 DEF Sends
<1>6. ShellTyped'
  BY <1>1, <1>2, <1>3 DEF ShellInv, ShellTyped, tabVars
<1>7. NothingAhead' /\ OneAnswer' /\ AskingIsBlank'
  BY <1>1, <1>3, <1>4, <1>5, MountsKept DEF tabVars
<1>8. NothingStreams'
  <2>1. ASSUME NEW t \in ShowNo, ~mongosh[t].streaming
        PROVE  mongosh'[t].buffer = Counted(written'[t]) /\ pumping'[t] = 0
               /\ \A i \in DOMAIN inbox : ~(inbox[i].type = "output" /\ inbox[i].of = t)
    <3>1. /\ mongosh[t].buffer = Counted(written[t]) /\ pumping[t] = 0
          /\ \A i \in DOMAIN inbox : ~(inbox[i].type = "output" /\ inbox[i].of = t)
      BY <2>1 DEF ShellInv, NothingStreams
    <3>2. CASE t = s
      BY <1>1, <1>2, <1>3, <2>1, <3>1, <3>2, CountedGrows
    <3>3. CASE t # s
      BY <1>2, <1>3, <3>1, <3>3
    <3>4. QED
      BY <3>2, <3>3
  <2>2. QED
    BY <1>1, <1>2, <1>3, <2>1 DEF ShellInv, NothingStreams, tabVars
<1>9. ExitIsOfTheDead'
  BY <1>1, <1>3, ShellTypes DEF ShellInv, ExitIsOfTheDead
<1>10. OwnShell'
  <2>1. CASE ~(onDisplay /\ shows = s)
    BY <1>1, <1>2, <1>3, <1>4, <1>5, <2>1, OwnSent, ShellTypes DEF tabVars, Alive, Known
  <2>2. CASE onDisplay /\ shows = s
    <3>1. SUFFICES ASSUME mounts[s].session = s PROVE OwnShell'
      BY <1>1, <2>2 DEF OwnShell, tabVars
    <3>2. CASE mounts[s].phase = "attach"
      BY <1>1, <1>3, <2>2, <3>1, <3>2 DEF ShellInv, OwnShell, Alive, tabVars, Shown, Joining
    <3>3. ASSUME mounts[s].phase # "attach", NEW k \in Nat, Shown(s, k), mongosh[s].streaming
          PROVE  OwnShell'
      <4>1. /\ Streamed(s, k, mounts[s].live, inbox, w, 0) /\ Joining(s, k, mounts[s], inbox)
            /\ Alive(s) => mounts[s].listening /\ NothingIsLost(s, k, mounts[s].live, inbox, w, 0)
        BY <1>1, <3>3 DEF Shown
      <4>2. \A i \in DOMAIN inbox : IsOutput(inbox[i], s) => inbox[i].body \in Nat
        BY ShellTypes DEF ShellMessage, IsOutput
      <4>3. mounts[s].live \in Seq(Nat)
        BY ShellTypes DEF MountRecord
      <4>4. /\ Streamed(s, k, mounts[s].live, inbox, w + 1, w + 1)
            /\ Alive(s) => NothingIsLost(s, k, mounts[s].live, inbox, w + 1, w + 1)
        BY <1>1, <4>1, <4>2, <4>3, PieceWritten, ShellTypes
      <4>5. Shown(s, k)'
        BY <1>1, <1>2, <1>3, <3>3, <4>1, <4>4 DEF Shown, Streamed, NothingIsLost, Joining, Alive
      <4>6. QED
        BY <1>1, <1>3, <2>2, <3>3, <4>5 DEF OwnShell, tabVars, Known
    <3>4. QED
      BY <1>1, <2>2, <3>1, <3>2, <3>3 DEF ShellInv, OwnShell, Known
  <2>3. QED
    BY <2>1, <2>2
<1>11. OnlyReplacedIsOrphan'
  BY <1>1, <1>3, OrphansKept DEF tabVars, Alive
<1>12. QED
  BY <1>6, <1>7, <1>8, <1>9, <1>10, <1>11 DEF ShellInv

\* A session that has begun, or has something to send, is of a mount so far.
LEMMA SessionsSoFar ==
    ASSUME ShellInv, NEW s \in ShowNo
    PROVE  /\ mongosh[s].state # "none" => s <= shows
           /\ pumping[s] # 0 => s <= shows /\ mongosh[s].streaming
<1>1. s > shows => mounts[s].phase = "none" /\ mounts[s].session = None
  BY DEF ShellInv, NothingAhead
<1>2. mounts[s].phase = "none" => mongosh[s].state = "none"
  BY DEF ShellInv, AskingIsBlank, HasNotAsked
<1>3. mongosh[s].streaming => s < shows \/ mounts[s].session = s
  BY DEF ShellInv, NothingStreams
<1>4. pumping[s] # 0 => mongosh[s].streaming
  BY DEF ShellInv, NothingStreams
<1>5. s \in Nat /\ shows \in Nat /\ s # None
  BY ShellTypes
<1>6. QED
  BY <1>1, <1>2, <1>3, <1>4, <1>5

\* A message is of the types.
LEMMA MessagesTyped ==
    ASSUME NEW s \in ShowNo
    PROVE  /\ \A n \in Nat : Message("output", s, n) \in ShellMessage
           /\ Message("exit", s, None) \in ShellMessage /\ Message("failed", s, None) \in ShellMessage
           /\ \A t \in ShowNo : Message("started", s, t) \in ShellMessage
           /\ \A b \in BOOLEAN : Message("pong", s, b) \in ShellMessage
           /\ \A b \in Seq(Nat) : Message("buffered", s, b) \in ShellMessage
           /\ \A t, b : /\ Message(t, s, b).type = t /\ Message(t, s, b).of = s
                        /\ Message(t, s, b).body = b
  BY DEF Message, ShellMessage

\* The piece is sent.
LEMMA EmitStep == ASSUME ShellInv, NEW s \in ShowNo, EmitOutput(s) PROVE ShellInv'
<1> PICK e : e = Message("output", s, pumping[s])
  OBVIOUS
<1> PICK E : E = {e}
  OBVIOUS
<1>1. /\ pumping[s] # 0 /\ pumping' = [pumping EXCEPT ![s] = 0] /\ inbox' = Append(inbox, e)
      /\ UNCHANGED <<tabVars, mounts, mongosh, written, stopping>>
  BY DEF EmitOutput, Deliver
<1>2. e \in ShellMessage /\ e.type = "output" /\ e.of = s /\ e.body = pumping[s] /\ s <= shows
  BY <1>1, ShellTypes, MessagesTyped, SessionsSoFar
<1>3. Sends(E)
  BY <1>1, <1>2 DEF Sends
<1>4. /\ pumping' \in [ShowNo -> Nat] /\ pumping'[s] = 0
      /\ \A t \in ShowNo \ {s} : pumping'[t] = pumping[t]
      /\ pumping[s] = written[s] /\ mongosh[s].streaming
  BY <1>1, SessionsSoFar DEF ShellInv, ShellTyped, NothingStreams
<1>5. /\ inbox' \in Seq(ShellMessage)
      /\ \A i \in DOMAIN inbox' : (i \in DOMAIN inbox /\ inbox'[i] = inbox[i]) \/ inbox'[i] = e
      /\ \A x \in Range(inbox) : x \in Range(inbox')
  BY <1>3, SentAt, ShellTypes
<1>6. ShellTyped'
  BY <1>1, <1>4, <1>5 DEF ShellInv, ShellTyped, tabVars
<1>7. NothingAhead' /\ OneAnswer' /\ AskingIsBlank'
  <2>1. \A x \in E : x.type \notin Answers /\ x.of <= shows
    BY <1>2 DEF Answers
  <2>2. QED
    BY <1>1, <1>3, <2>1, MountsKept DEF tabVars
<1>8. NothingStreams'
  <2>1. ASSUME NEW t \in ShowNo, ~mongosh[t].streaming
        PROVE  /\ mongosh[t].buffer = Counted(written[t]) /\ pumping'[t] = 0
               /\ \A i \in DOMAIN inbox' : ~(inbox'[i].type = "output" /\ inbox'[i].of = t)
    BY <1>2, <1>4, <1>5, <2>1 DEF ShellInv, NothingStreams
  <2>2. QED
    BY <1>1, <1>4, <2>1 DEF ShellInv, NothingStreams, tabVars
<1>9. ExitIsOfTheDead'
  BY <1>1, <1>2, <1>5, ShellTypes DEF ShellInv, ExitIsOfTheDead
<1>10. OwnShell'
  <2>1. CASE ~(onDisplay /\ shows = s)
    <3>1. \A x \in E : x.type \notin Answers /\ ~(onDisplay /\ IsOutput(x, shows))
      BY <1>2, <2>1 DEF Answers, IsOutput
    <3>2. QED
      BY <1>1, <1>3, <1>4, <2>1, <3>1, OwnSent, ShellTypes DEF tabVars, Alive, Known
  <2>2. CASE onDisplay /\ shows = s
    <3>1. SUFFICES ASSUME mounts[s].session = s PROVE OwnShell'
      BY <1>1, <2>2 DEF OwnShell, tabVars
    <3>2. CASE mounts[s].phase = "attach"
      BY <1>1, <1>4, <2>2, <3>1, <3>2 DEF ShellInv, OwnShell, Alive, tabVars, Shown, Joining
    <3>3. ASSUME mounts[s].phase # "attach", NEW k \in Nat, Shown(s, k)
          PROVE  OwnShell'
      <4>1. PICK p \in Nat : p = pumping[s]
        BY ShellTypes
      <4>2. PICK one \in MountRecord : one = mounts[s]
        BY ShellTypes
      <4>3. PICK w \in Nat : w = written[s]
        BY ShellTypes
      <4>4. /\ Streamed(s, k, one.live, inbox, w, p) /\ Joining(s, k, one, inbox)
            /\ Alive(s) => one.listening /\ NothingIsLost(s, k, one.live, inbox, w, p)
        BY <3>3, <4>1, <4>2, <4>3 DEF Shown
      <4>5. one.live \in Seq(Nat) /\ IsOutput(e, s) /\ e.body = p /\ p # 0
        BY <1>1, <1>2, <4>1, <4>2 DEF MountRecord, IsOutput
      <4>6. /\ Streamed(s, k, one.live, inbox', w, 0)
            /\ Alive(s) => NothingIsLost(s, k, one.live, inbox', w, 0)
        BY <1>1, <1>2, <4>4, <4>5, PieceSent, ShellTypes
      <4>7. Joining(s, k, one, inbox')
        <5>1. \A i \in DOMAIN inbox' : inbox'[i].type \in Answers => \E j \in DOMAIN inbox : inbox[j] = inbox'[i]
          BY <1>2, <1>5 DEF Answers
        <5>2. QED
          BY <4>4, <5>1, OtherMessages
      <4>8. Shown(s, k)'
        BY <1>1, <1>4, <4>1, <4>2, <4>3, <4>4, <4>6, <4>7 DEF Shown, Streamed, NothingIsLost, Joining, Alive
      <4>9. QED
        BY <1>1, <1>4, <2>2, <3>3, <4>8 DEF OwnShell, tabVars, Known
    <3>4. QED
      BY <1>1, <2>2, <3>1, <3>2, <3>3 DEF ShellInv, OwnShell, Known
  <2>3. QED
    BY <2>1, <2>2
<1>11. OnlyReplacedIsOrphan'
  BY <1>1, <1>5, OrphansKept DEF tabVars, Alive
<1>12. QED
  BY <1>6, <1>7, <1>8, <1>9, <1>10, <1>11 DEF ShellInv

\* A session dies, by itself or by a kill.
LEMMA DeathStep ==
    ASSUME ShellInv, NEW s \in ShowNo, NEW to \in {"exited", "removed"},
           UNCHANGED <<tabVars, mounts, written, pumping>>, stopping' \subseteq ShowNo,
           \A t \in ShowNo \ {s} : t \in stopping => t \in stopping',
           mongosh[s].state # "none" /\ (mongosh[s].state = "exited" => to = "removed"),
           mongosh[s].state # "removed",
           mongosh' = [mongosh EXCEPT ![s].state = to],
           IF Alive(s) THEN inbox' = Append(inbox, Message("exit", s, None)) ELSE inbox' = inbox
    PROVE  ShellInv'
<1> PICK e : e = Message("exit", s, None)
  OBVIOUS
<1> PICK E : E = IF Alive(s) THEN {e} ELSE {}
  OBVIOUS
<1>1. e \in ShellMessage /\ e.type = "exit" /\ e.of = s /\ s <= shows
  BY MessagesTyped, SessionsSoFar
<1>2. Sends(E) /\ \A x \in E : x = e
  BY <1>1 DEF Sends
<1>3. /\ mongosh' \in [ShowNo -> ShellRecord] /\ mongosh'[s].state = to
      /\ mongosh'[s].streaming = mongosh[s].streaming /\ mongosh'[s].buffer = mongosh[s].buffer
      /\ \A t \in ShowNo \ {s} : mongosh'[t] = mongosh[t]
  <2>1. PICK r : r = [mongosh[s] EXCEPT !.state = to]
    OBVIOUS
  <2>2. /\ r \in ShellRecord /\ r.state = to /\ r.streaming = mongosh[s].streaming
        /\ r.buffer = mongosh[s].buffer
    BY <2>1, ShellTypes DEF ShellRecord
  <2>3. mongosh' = [mongosh EXCEPT ![s] = r]
    BY <2>1
  <2>4. QED
    BY <2>2, <2>3 DEF ShellInv, ShellTyped
<1>4. /\ inbox' \in Seq(ShellMessage)
      /\ \A i \in DOMAIN inbox' : (i \in DOMAIN inbox /\ inbox'[i] = inbox[i]) \/ inbox'[i] = e
      /\ \A x \in Range(inbox) : x \in Range(inbox')
  BY <1>2, SentAt, ShellTypes
<1>5. ShellTyped'
  BY <1>3, <1>4 DEF ShellInv, ShellTyped, tabVars
<1>6. NothingAhead' /\ OneAnswer' /\ AskingIsBlank'
  <2>1. \A x \in E : x.type \notin Answers /\ x.of <= shows
    BY <1>1, <1>2 DEF Answers
  <2>2. \A t \in ShowNo : mongosh[t].state = "none" => mongosh'[t].state = "none"
    BY <1>3
  <2>3. QED
    BY <1>2, <2>1, <2>2, MountsKept DEF tabVars
<1>7. NothingStreams'
  <2>1. ASSUME NEW t \in ShowNo
        PROVE  /\ mongosh'[t].streaming = mongosh[t].streaming /\ mongosh'[t].buffer = mongosh[t].buffer
               /\ (\A i \in DOMAIN inbox : ~(inbox[i].type = "output" /\ inbox[i].of = t)) =>
                     \A i \in DOMAIN inbox' : ~(inbox'[i].type = "output" /\ inbox'[i].of = t)
    BY <1>1, <1>3, <1>4
  <2>2. QED
    BY <2>1 DEF ShellInv, NothingStreams, tabVars
<1>8. ExitIsOfTheDead'
  <2>1. ASSUME NEW i \in DOMAIN inbox', inbox'[i].type = "exit"
        PROVE  mongosh'[inbox'[i].of].state \in {"exited", "removed"}
    BY <1>1, <1>3, <1>4, <2>1, ShellTypes DEF ShellInv, ExitIsOfTheDead
  <2>2. QED
    BY <2>1 DEF ExitIsOfTheDead
<1>9. OwnShell'
  <2>1. \A x \in E : x.type \notin Answers /\ ~(onDisplay /\ IsOutput(x, shows))
    BY <1>1, <1>2 DEF Answers, IsOutput
  <2>2. onDisplay =>
              /\ mongosh[shows].streaming => mongosh'[shows].streaming
              /\ ~Known(shows) => ~Known(shows)'
              /\ Alive(shows)' => Alive(shows)
    BY <1>3, ShellTypes DEF Alive, tabVars, Known, ShellRecord
  <2>3. QED
    BY <1>2, <2>1, <2>2, OwnSent DEF tabVars
<1>10. OnlyReplacedIsOrphan'
  <2>1. \A t \in ShowNo : /\ Alive(t)' => Alive(t)
                          /\ Alive(t)' /\ t \in stopping => t \in stopping'
    BY <1>3 DEF Alive
  <2>2. QED
    BY <1>4, <2>1, OrphansKept DEF tabVars
<1>11. QED
  BY <1>5, <1>6, <1>7, <1>8, <1>9, <1>10 DEF ShellInv

\* A kill may find nothing to kill.
LEMMA NothingToKill ==
    ASSUME ShellInv, UNCHANGED <<tabVars, mounts, written, pumping, mongosh, inbox>>,
           NEW s \in ShowNo, stopping' = stopping \ {s}, ~Alive(s)
    PROVE  ShellInv'
<1>1. ShellTyped'
  BY DEF ShellInv, ShellTyped, tabVars
<1>2. NothingAhead' /\ OneAnswer' /\ AskingIsBlank' /\ NothingStreams' /\ ExitIsOfTheDead'
  BY DEF ShellInv, tabVars, NothingAhead, OneAnswer, AskingIsBlank, Asks, HasNotAsked, NothingStreams,
         ExitIsOfTheDead
<1>3. OwnShell'
  BY DEF ShellInv, tabVars, OwnShell, Alive, Known, Shown, Streamed, Joining, NothingIsLost
<1>4. OnlyReplacedIsOrphan'
  BY OrphansKept DEF tabVars, Alive
<1>5. QED
  BY <1>1, <1>2, <1>3, <1>4 DEF ShellInv

\* What the native side does to a session.
LEMMA SessionSteps ==
    ASSUME ShellInv, NEW s \in ShowNo,
           PumpShell(s) \/ EmitOutput(s) \/ ShellExits(s) \/ SweepShell(s) \/ StopMongoShell(s)
    PROVE  ShellInv'
<1>1. CASE ShellExits(s)
  BY <1>1, DeathStep DEF ShellExits, Alive, Deliver, ShellInv, ShellTyped
<1>2. CASE SweepShell(s) \/ StopMongoShell(s)
  <2>1. CASE Known(s)
    <3>1. /\ UNCHANGED <<tabVars, mounts, written, pumping>>
          /\ mongosh' = [mongosh EXCEPT ![s].state = "removed"]
          /\ IF Alive(s) THEN inbox' = Append(inbox, Message("exit", s, None)) ELSE inbox' = inbox
          /\ stopping' \subseteq ShowNo /\ \A t \in ShowNo \ {s} : t \in stopping => t \in stopping'
      BY <1>2, <2>1 DEF SweepShell, StopMongoShell, Kill, Deliver, ShellInv, ShellTyped
    <3>2. mongosh[s].state # "none" /\ mongosh[s].state # "removed"
      BY <2>1 DEF Known
    <3>3. QED
      BY <3>1, <3>2, DeathStep
  <2>2. CASE ~Known(s)
    <3>1. StopMongoShell(s) /\ ~Alive(s)
      BY <1>2, <2>2 DEF SweepShell, Known, Alive
    <3>2. mongosh' = mongosh
      <4>1. mongosh' = [mongosh EXCEPT ![s].state = mongosh[s].state]
        BY <2>2, <3>1 DEF StopMongoShell, Kill
      <4>2. mongosh[s] = [mongosh[s] EXCEPT !.state = mongosh[s].state]
        BY ShellTypes DEF ShellRecord
      <4>3. QED
        BY <4>1, <4>2 DEF ShellInv, ShellTyped
    <3>3. QED
      BY <3>1, <3>2, NothingToKill DEF StopMongoShell, Kill
  <2>3. QED
    BY <2>1, <2>2
<1>3. QED
  BY <1>1, <1>2, PumpStep, EmitStep

-----------------------------------------------------------------------------
(* The calls of a mount.                                                    *)

\* One mount changes, and keeps its session.
OneMount(m, r) ==
    /\ r \in MountRecord /\ r.session = mounts[m].session
    /\ mounts' = [mounts EXCEPT ![m] = r]

\* The other mounts are as they were when one mount changes.
LEMMA OtherMounts ==
    ASSUME ShellInv, NEW m \in ShowNo, NEW r, OneMount(m, r)
    PROVE  /\ mounts' \in [ShowNo -> MountRecord] /\ mounts'[m] = r
           /\ \A n \in ShowNo \ {m} : mounts'[n] = mounts[n]
           /\ \A n \in ShowNo : mounts'[n].session = mounts[n].session
           /\ mounts[m].phase # "none" => m <= shows
<1>1. /\ mounts' \in [ShowNo -> MountRecord] /\ mounts'[m] = r
      /\ \A n \in ShowNo \ {m} : mounts'[n] = mounts[n]
  BY DEF ShellInv, ShellTyped, OneMount
<1>2. mounts[m].phase # "none" => m <= shows
  BY ShellTypes DEF ShellInv, NothingAhead
<1>3. QED
  BY <1>1, <1>2 DEF OneMount

\* A mount that had no answer on its way gets one.
LEMMA AnswerSent ==
    ASSUME ShellInv, UNCHANGED shows, NEW m \in ShowNo, NEW r, OneMount(m, r), r.phase = "waiting",
           mounts[m].phase \notin {"none", "waiting"}, NEW e \in ShellMessage, e.type \in Answers, e.of = m,
           inbox' = Append(inbox, e)
    PROVE  /\ NothingAhead' /\ OneAnswer'
           /\ \A i \in DOMAIN inbox' : inbox'[i].type \in Answers /\ inbox'[i].of = m => inbox'[i] = e
           /\ \A n \in ShowNo \ {m} : (Asks(n, inbox)' => Asks(n, inbox))
                                      /\ (HasNotAsked(n, inbox)' => HasNotAsked(n, inbox))
           /\ Asks(m, inbox)' => e.type \in {"pong", "started", "failed"}
           /\ HasNotAsked(m, inbox)' => e.type = "pong"
           /\ \A i \in DOMAIN inbox' : (i \in DOMAIN inbox /\ inbox'[i] = inbox[i]) \/ inbox'[i] = e
           /\ inbox' \in Seq(ShellMessage) /\ \A x \in Range(inbox) : x \in Range(inbox')
           /\ e \in Range(inbox')
<1> PICK E : E = {e}
  OBVIOUS
<1>1. Sends(E)
  BY DEF Sends
<1>2. /\ \A i \in DOMAIN inbox : i \in DOMAIN inbox' /\ inbox'[i] = inbox[i]
      /\ \A i \in DOMAIN inbox' : i \in DOMAIN inbox \/ inbox'[i] = e
      /\ inbox' \in Seq(ShellMessage) /\ \A x \in Range(inbox) : x \in Range(inbox')
      /\ e \in Range(inbox')
      /\ \A i, j \in DOMAIN inbox' : i \notin DOMAIN inbox /\ j \notin DOMAIN inbox => i = j
  BY <1>1, SentAt, ShellTypes
<1>3. /\ mounts' \in [ShowNo -> MountRecord] /\ mounts'[m] = r
      /\ \A n \in ShowNo \ {m} : mounts'[n] = mounts[n]
      /\ \A n \in ShowNo : mounts'[n].session = mounts[n].session
      /\ m <= shows /\ m \in Nat /\ shows \in Nat
  BY OtherMounts, ShellTypes
<1>4. \A i \in DOMAIN inbox : inbox[i].type \in Answers => inbox[i].of # m
  BY DEF ShellInv, OneAnswer
<1>5. NothingAhead'
  <2>1. \A n \in ShowNo : n > shows => n # m
    BY <1>3, ShellTypes
  <2>2. QED
    BY <1>2, <1>3, <2>1 DEF ShellInv, NothingAhead
<1>6. \A i \in DOMAIN inbox' : inbox'[i].type \in Answers /\ inbox'[i].of = m => inbox'[i] = e /\ i \notin DOMAIN inbox
  BY <1>2, <1>4
<1>7. OneAnswer'
  <2>1. ASSUME NEW i \in DOMAIN inbox', inbox'[i].type \in Answers
        PROVE  mounts'[inbox'[i].of].phase = "waiting"
    <3>1. CASE inbox'[i] = e
      BY <1>3, <3>1
    <3>2. CASE i \in DOMAIN inbox /\ inbox'[i] = inbox[i]
      <4>1. inbox[i].of \in ShowNo \ {m} /\ mounts[inbox[i].of].phase = "waiting"
        BY <1>4, <2>1, <3>2, ShellTypes DEF ShellInv, OneAnswer
      <4>2. QED
        BY <1>3, <3>2, <4>1
    <3>3. QED
      BY <1>2, <3>1, <3>2
  <2>2. ASSUME NEW i \in DOMAIN inbox', NEW j \in DOMAIN inbox', inbox'[i].type \in Answers,
               inbox'[j].type \in Answers, inbox'[i].of = inbox'[j].of
        PROVE  i = j
    <3>1. CASE inbox'[i].of = m
      BY <1>2, <1>6, <2>2, <3>1
    <3>2. CASE inbox'[i].of # m
      BY <1>2, <2>2, <3>2 DEF ShellInv, OneAnswer
    <3>3. QED
      BY <3>1, <3>2
  <2>3. QED
    BY <2>1, <2>2 DEF OneAnswer
<1>8. \A i \in DOMAIN inbox' : (i \in DOMAIN inbox /\ inbox'[i] = inbox[i]) \/ inbox'[i] = e
  BY <1>2
<1>9. \A n \in ShowNo \ {m} : (Asks(n, inbox)' => Asks(n, inbox))
                              /\ (HasNotAsked(n, inbox)' => HasNotAsked(n, inbox))
  BY <1>3, <1>8 DEF Asks, HasNotAsked
<1>10. /\ Asks(m, inbox)' => e.type \in {"pong", "started", "failed"}
       /\ HasNotAsked(m, inbox)' => e.type = "pong"
  BY <1>3, <1>6 DEF Asks, HasNotAsked, Answers
<1>11. QED
  BY <1>2, <1>5, <1>6, <1>7, <1>8, <1>9, <1>10

\* The mount on display does not see what another mount is answered.
LEMMA OwnBeside ==
    ASSUME ShellInv, UNCHANGED <<shows, onDisplay>>, NEW m \in ShowNo, onDisplay => m # shows,
           NEW r, OneMount(m, r), NEW E, Sends(E), \A e \in E : e.of = m /\ e.type # "output",
           onDisplay =>
              /\ mongosh[shows].streaming => mongosh'[shows].streaming
              /\ ~Known(shows) => ~Known(shows)'
              /\ Alive(shows)' => Alive(shows)
              /\ written'[shows] = written[shows] /\ pumping'[shows] = pumping[shows]
    PROVE  OwnShell'
<1> SUFFICES ASSUME onDisplay PROVE OwnShell'
  BY DEF OwnShell
<1> PICK one : one = mounts[shows]
  OBVIOUS
<1>1. /\ inbox \in Seq(ShellMessage) /\ one.live \in Seq(Nat) /\ written[shows] \in Nat
      /\ pumping[shows] \in Nat /\ shows \in ShowNo /\ OwnShell
  BY DEF ShellInv, ShellTyped, MountRecord
<1>2. mounts'[shows] = one
  BY <1>1, OtherMounts
<1>3. ASSUME NEW k \in Nat, Streamed(shows, k, one.live, inbox, written[shows], pumping[shows])
      PROVE  /\ Streamed(shows, k, one.live, inbox', written[shows], pumping[shows])
             /\ NothingIsLost(shows, k, one.live, inbox, written[shows], pumping[shows]) =>
                   NothingIsLost(shows, k, one.live, inbox', written[shows], pumping[shows])
  <2>1. CASE inbox' = inbox
    BY <1>3, <2>1
  <2>2. ASSUME NEW e \in ShellMessage, inbox' = Append(inbox, e), E = {e}
        PROVE  /\ Streamed(shows, k, one.live, inbox', written[shows], pumping[shows])
               /\ NothingIsLost(shows, k, one.live, inbox, written[shows], pumping[shows]) =>
                     NothingIsLost(shows, k, one.live, inbox', written[shows], pumping[shows])
    <3>1. ~IsOutput(e, shows)
      BY <2>2 DEF IsOutput
    <3>2. QED
      BY <1>1, <1>3, <2>2, <3>1, OtherSent
  <2>3. QED
    BY <2>1, <2>2 DEF Sends
<1>4. ASSUME NEW k \in Nat, Joining(shows, k, one, inbox) PROVE Joining(shows, k, one, inbox')
  <2>1. /\ \A i \in DOMAIN inbox : i \in DOMAIN inbox' /\ inbox'[i] = inbox[i]
        /\ \A i \in DOMAIN inbox' : i \in DOMAIN inbox \/ inbox'[i] \in E
    BY <1>1, SentAt
  <2>2. \A i \in DOMAIN inbox' : inbox'[i].of = shows => i \in DOMAIN inbox /\ inbox'[i] = inbox[i]
    BY <2>1
  <2>3. \A i \in DOMAIN inbox' : inbox'[i].type \in Answers /\ inbox'[i].of = shows =>
           \E j \in DOMAIN inbox : inbox[j] = inbox'[i]
    BY <2>2
  <2>4. QED
    BY <1>4, <2>3, OtherMessages
<1>5. QED
  BY <1>1, <1>2, <1>3, <1>4, OwnKept

\* A mount that asks has no session of its own.
LEMMA AskingOwnsNothing ==
    ASSUME UNCHANGED <<shows, onDisplay>>, mounts'[shows].session # shows
    PROVE  OwnShell'
  BY DEF OwnShell

\* A session that the mount remembers is looked for.
LEMMA PingStep == ASSUME ShellInv, NEW m \in ShowNo, PingShell(m) PROVE ShellInv'
<1> PICK r : r = [mounts[m] EXCEPT !.phase = "waiting"]
  OBVIOUS
<1> PICK alive \in BOOLEAN : alive = Alive(mounts[m].session)
  <2>1. Alive(mounts[m].session) \in BOOLEAN
    BY DEF Alive
  <2>2. QED
    BY <2>1
<1> PICK e : e = Message("pong", m, alive)
  OBVIOUS
<1> PICK E : E = {e}
  OBVIOUS
<1>1. /\ mounts[m].phase = "ping" /\ mounts' = [mounts EXCEPT ![m] = r]
      /\ inbox' = Append(inbox, e)
      /\ UNCHANGED <<tabOpen, tabSession, shows, onDisplay, replaced, unheard, mongosh, written, pumping, stopping>>
  BY DEF PingShell, Deliver, tabVars
<1>2. e \in ShellMessage /\ e.type = "pong" /\ e.of = m /\ e.type \in Answers
  BY MessagesTyped DEF Answers
<1>3. /\ r \in MountRecord /\ r.phase = "waiting" /\ r.screen = mounts[m].screen /\ r.live = mounts[m].live
      /\ r.listening = mounts[m].listening /\ r.session = mounts[m].session /\ OneMount(m, r)
  BY <1>1, ShellTypes DEF MountRecord, OneMount
<1>4. /\ mounts' \in [ShowNo -> MountRecord] /\ mounts'[m] = r
      /\ \A n \in ShowNo \ {m} : mounts'[n] = mounts[n]
      /\ \A n \in ShowNo : mounts'[n].session = mounts[n].session
  BY <1>3, OtherMounts
<1>5. /\ NothingAhead' /\ OneAnswer'
      /\ \A n \in ShowNo \ {m} : (Asks(n, inbox)' => Asks(n, inbox))
                                 /\ (HasNotAsked(n, inbox)' => HasNotAsked(n, inbox))
      /\ \A i \in DOMAIN inbox' : (i \in DOMAIN inbox /\ inbox'[i] = inbox[i]) \/ inbox'[i] = e
      /\ inbox' \in Seq(ShellMessage) /\ \A x \in Range(inbox) : x \in Range(inbox')
  BY <1>1, <1>2, <1>3, AnswerSent, ZenonT(60)
<1>6. ShellTyped'
  BY <1>1, <1>4, <1>5 DEF ShellInv, ShellTyped
<1>7. /\ mounts[m].screen = <<>> /\ mounts[m].live = <<>> /\ ~mounts[m].listening
      /\ mounts[m].session # m /\ mounts[m].session # None /\ mongosh[m].state = "none"
  BY <1>1 DEF ShellInv, AskingIsBlank, Asks, HasNotAsked
<1>8. ASSUME NEW n \in ShowNo
      PROVE  /\ Asks(n, inbox)' => /\ mounts'[n].screen = <<>> /\ mounts'[n].live = <<>>
                                   /\ ~mounts'[n].listening /\ mounts'[n].session # n
             /\ HasNotAsked(n, inbox)' => mongosh'[n].state = "none"
             /\ mounts'[n].phase \in {"ping", "attach"} => mounts'[n].session # None
             /\ \A i \in DOMAIN inbox' :
                  inbox'[i].of = n /\ inbox'[i].type = "pong" => mounts'[n].session # None
  <2>1. CASE n = m
    BY <1>1, <1>3, <1>4, <1>7, <2>1
  <2>2. CASE n # m
    <3>1. \A i \in DOMAIN inbox' : inbox'[i].of = n => i \in DOMAIN inbox /\ inbox'[i] = inbox[i]
      BY <1>2, <1>5, <2>2
    <3>2. mounts'[n] = mounts[n]
      BY <1>4, <2>2
    <3>3. QED
      BY <1>1, <1>5, <2>2, <3>1, <3>2 DEF ShellInv, AskingIsBlank
  <2>3. QED
    BY <2>1, <2>2
<1>9. AskingIsBlank'
  BY <1>8 DEF AskingIsBlank
<1>10. NothingStreams'
  <2>1. ASSUME NEW s \in ShowNo, mongosh[s].streaming
        PROVE  s < shows \/ (mounts'[s].session = s /\ mounts'[s].phase # "attach")
    BY <1>3, <1>4, <1>7, <2>1 DEF ShellInv, NothingStreams
  <2>2. \A s \in ShowNo, i \in DOMAIN inbox' :
           inbox'[i].type = "output" /\ inbox'[i].of = s => i \in DOMAIN inbox /\ inbox'[i] = inbox[i]
    BY <1>2, <1>5
  <2>3. QED
    BY <1>1, <2>1, <2>2 DEF ShellInv, NothingStreams
<1>11. ExitIsOfTheDead'
  BY <1>1, <1>2, <1>5 DEF ShellInv, ExitIsOfTheDead
<1>12. OwnShell'
  <2>1. CASE m = shows
    BY <1>1, <1>4, <1>7, <2>1, AskingOwnsNothing
  <2>2. CASE m # shows
    <3>1. Sends(E) /\ \A x \in E : x.of = m /\ x.type # "output"
      BY <1>1, <1>2 DEF Sends
    <3>2. QED
      BY <1>1, <1>3, <2>2, <3>1, OwnBeside DEF Known, Alive
  <2>3. QED
    BY <2>1, <2>2
<1>13. OnlyReplacedIsOrphan'
  BY <1>1, <1>5, OrphansKept DEF Alive
<1>14. QED
  BY <1>5, <1>6, <1>9, <1>10, <1>11, <1>12, <1>13 DEF ShellInv
\* A mongosh is started, or cannot be.
LEMMA StartStep == ASSUME ShellInv, NEW m \in ShowNo, StartMongoShell(m) PROVE ShellInv'
<1> PICK r : r = [mounts[m] EXCEPT !.phase = "waiting"]
  OBVIOUS
<1> PICK begins \in BOOLEAN : IF begins THEN mongosh' = [mongosh EXCEPT ![m].state = "running"]
                                              /\ Deliver(Message("started", m, m))
                              ELSE UNCHANGED mongosh /\ Deliver(Message("failed", m, None))
  BY DEF StartMongoShell
<1> PICK e : e = IF begins THEN Message("started", m, m) ELSE Message("failed", m, None)
  OBVIOUS
<1> PICK E : E = {e}
  OBVIOUS
<1>1. /\ mounts[m].phase = "start" /\ mounts' = [mounts EXCEPT ![m] = r]
      /\ inbox' = Append(inbox, e)
      /\ UNCHANGED <<tabOpen, tabSession, shows, onDisplay, replaced, unheard, written, pumping, stopping>>
  BY DEF StartMongoShell, Deliver, tabVars
<1>2. /\ e \in ShellMessage /\ e.of = m /\ e.type \in {"started", "failed"} /\ e.type \in Answers
      /\ begins => e = Message("started", m, m)
  BY MessagesTyped DEF Answers
<1>3. /\ r \in MountRecord /\ r.phase = "waiting" /\ r.screen = mounts[m].screen /\ r.live = mounts[m].live
      /\ r.listening = mounts[m].listening /\ r.session = mounts[m].session /\ OneMount(m, r)
  BY <1>1, ShellTypes DEF MountRecord, OneMount
<1>4. /\ mounts' \in [ShowNo -> MountRecord] /\ mounts'[m] = r
      /\ \A n \in ShowNo \ {m} : mounts'[n] = mounts[n]
      /\ \A n \in ShowNo : mounts'[n].session = mounts[n].session
  BY <1>3, OtherMounts
<1>5. /\ NothingAhead' /\ OneAnswer'
      /\ \A i \in DOMAIN inbox' : inbox'[i].type \in Answers /\ inbox'[i].of = m => inbox'[i] = e
      /\ \A n \in ShowNo \ {m} : (Asks(n, inbox)' => Asks(n, inbox))
                                 /\ (HasNotAsked(n, inbox)' => HasNotAsked(n, inbox))
      /\ HasNotAsked(m, inbox)' => e.type = "pong"
      /\ \A i \in DOMAIN inbox' : (i \in DOMAIN inbox /\ inbox'[i] = inbox[i]) \/ inbox'[i] = e
      /\ inbox' \in Seq(ShellMessage) /\ \A x \in Range(inbox) : x \in Range(inbox')
      /\ e \in Range(inbox')
  BY <1>1, <1>2, <1>3, AnswerSent, ZenonT(60)
<1>6. /\ mounts[m].screen = <<>> /\ mounts[m].live = <<>> /\ ~mounts[m].listening
      /\ mounts[m].session # m /\ mongosh[m].state = "none"
  BY <1>1 DEF ShellInv, AskingIsBlank, Asks, HasNotAsked
<1>7. /\ mongosh' \in [ShowNo -> ShellRecord] /\ \A t \in ShowNo \ {m} : mongosh'[t] = mongosh[t]
      /\ mongosh'[m].streaming = mongosh[m].streaming /\ mongosh'[m].buffer = mongosh[m].buffer
      /\ mongosh'[m].state = IF begins THEN "running" ELSE "none"
  <2>1. CASE begins
    <3>1. PICK n : n = [mongosh[m] EXCEPT !.state = "running"]
      OBVIOUS
    <3>2. n \in ShellRecord /\ n.state = "running" /\ n.streaming = mongosh[m].streaming /\ n.buffer = mongosh[m].buffer
      BY <3>1, ShellTypes DEF ShellRecord
    <3>3. mongosh' = [mongosh EXCEPT ![m] = n]
      BY <2>1, <3>1
    <3>4. QED
      BY <2>1, <3>2, <3>3 DEF ShellInv, ShellTyped
  <2>2. CASE ~begins
    BY <1>6, <2>2 DEF ShellInv, ShellTyped
  <2>3. QED
    BY <2>1, <2>2
<1>8. ShellTyped'
  BY <1>1, <1>4, <1>5, <1>7 DEF ShellInv, ShellTyped
<1>9. ASSUME NEW n \in ShowNo
      PROVE  /\ Asks(n, inbox)' => /\ mounts'[n].screen = <<>> /\ mounts'[n].live = <<>>
                                   /\ ~mounts'[n].listening /\ mounts'[n].session # n
             /\ HasNotAsked(n, inbox)' => mongosh'[n].state = "none"
             /\ mounts'[n].phase \in {"ping", "attach"} => mounts'[n].session # None
             /\ \A i \in DOMAIN inbox' :
                  inbox'[i].of = n /\ inbox'[i].type = "pong" => mounts'[n].session # None
  <2>1. CASE n = m
    <3>1. \A i \in DOMAIN inbox' : inbox'[i].of = m => inbox'[i].type # "pong"
      BY <1>2, <1>5 DEF Answers
    <3>2. QED
      BY <1>2, <1>3, <1>4, <1>5, <1>6, <2>1, <3>1
  <2>2. CASE n # m
    <3>1. \A i \in DOMAIN inbox' : inbox'[i].of = n => i \in DOMAIN inbox /\ inbox'[i] = inbox[i]
      BY <1>2, <1>5, <2>2
    <3>2. mounts'[n] = mounts[n] /\ mongosh'[n] = mongosh[n]
      BY <1>4, <1>7, <2>2
    <3>3. QED
      BY <1>1, <1>5, <2>2, <3>1, <3>2 DEF ShellInv, AskingIsBlank
  <2>3. QED
    BY <2>1, <2>2
<1>10. AskingIsBlank'
  BY <1>9 DEF AskingIsBlank
<1>11. NothingStreams'
  <2>1. \A s \in ShowNo : mongosh'[s].streaming = mongosh[s].streaming /\ mongosh'[s].buffer = mongosh[s].buffer
    BY <1>7
  <2>2. ASSUME NEW s \in ShowNo, mongosh[s].streaming
        PROVE  s < shows \/ (mounts'[s].session = s /\ mounts'[s].phase # "attach")
    BY <1>3, <1>4, <1>6, <2>2 DEF ShellInv, NothingStreams
  <2>3. \A s \in ShowNo, i \in DOMAIN inbox' :
           inbox'[i].type = "output" /\ inbox'[i].of = s => i \in DOMAIN inbox /\ inbox'[i] = inbox[i]
    BY <1>2, <1>5
  <2>4. QED
    BY <1>1, <2>1, <2>2, <2>3 DEF ShellInv, NothingStreams
<1>12. ExitIsOfTheDead'
  <2>1. ASSUME NEW i \in DOMAIN inbox', inbox'[i].type = "exit"
        PROVE  mongosh'[inbox'[i].of].state \in {"exited", "removed"}
    <3>1. i \in DOMAIN inbox /\ inbox'[i] = inbox[i] /\ inbox[i].of \in ShowNo
      BY <1>2, <1>5, <2>1, ShellTypes
    <3>2. mongosh[inbox[i].of].state \in {"exited", "removed"}
      BY <2>1, <3>1 DEF ShellInv, ExitIsOfTheDead
    <3>3. QED
      BY <1>6, <1>7, <3>1, <3>2
  <2>2. QED
    BY <2>1 DEF ExitIsOfTheDead
<1>13. OwnShell'
  <2>1. CASE m = shows
    BY <1>1, <1>4, <1>6, <2>1, AskingOwnsNothing
  <2>2. CASE m # shows
    <3>1. Sends(E) /\ \A x \in E : x.of = m /\ x.type # "output"
      BY <1>1, <1>2 DEF Sends
    <3>2. onDisplay => mongosh'[shows] = mongosh[shows]
      BY <1>7, <2>2, ShellTypes
    <3>3. QED
      BY <1>1, <1>3, <2>2, <3>1, <3>2, OwnBeside DEF Known, Alive
  <2>3. QED
    BY <2>1, <2>2
<1>14. OnlyReplacedIsOrphan'
  <2>1. SUFFICES ASSUME NEW s \in ShowNo, Alive(s)'
                 PROVE  Referenced(s)' \/ s \in unheard' \cup replaced'
    BY DEF OnlyReplacedIsOrphan
  <2>2. CASE s = m
    <3>1. e = Message("started", m, m)
      BY <1>2, <1>7, <2>1, <2>2 DEF Alive
    <3>2. QED
      BY <1>5, <2>2, <3>1 DEF Referenced, Message
  <2>3. CASE s # m
    <3>1. Referenced(s) \/ s \in unheard \cup replaced
      BY <1>7, <2>1, <2>3 DEF ShellInv, OnlyReplacedIsOrphan, Alive
    <3>2. Message("started", s, s) \in Range(inbox) => Message("started", s, s) \in Range(inbox')
      BY <1>5
    <3>3. QED
      BY <1>1, <3>1, <3>2 DEF Referenced, Message
  <2>4. QED
    BY <2>2, <2>3
<1>15. QED
  BY <1>5, <1>8, <1>10, <1>11, <1>12, <1>13, <1>14 DEF ShellInv
\* Sends nothing: the queue is the same.
LEMMA SendsNothing == ASSUME inbox' = inbox PROVE Sends({})
  BY DEF Sends

\* The first attach to a session empties its buffer into the answer, and the rest streams.
LEMMA AttachStep == ASSUME ShellInv, NEW m \in ShowNo, AttachMongoShell(m) PROVE ShellInv'
<1> PICK s : s = mounts[m].session
  OBVIOUS
<1> PICK r : r = [mounts[m] EXCEPT !.phase = "attached", !.answer = IF Known(s) THEN mongosh[s].buffer ELSE <<>>]
  OBVIOUS
<1> PICK n : n = [mongosh[s] EXCEPT !.streaming = mongosh[s].streaming \/ Known(s),
                                    !.buffer = IF Known(s) THEN <<>> ELSE mongosh[s].buffer]
  OBVIOUS
<1>1. /\ mounts[m].phase = "attach"
      /\ mounts' = [mounts EXCEPT ![m].phase = "attached",
                                  ![m].answer = IF Known(s) THEN mongosh[s].buffer ELSE <<>>]
      /\ mongosh' = [mongosh EXCEPT ![s].streaming = @ \/ Known(s),
                                    ![s].buffer = IF Known(s) THEN <<>> ELSE @]
      /\ UNCHANGED <<tabOpen, tabSession, shows, onDisplay, replaced, unheard, written, pumping, inbox, stopping>>
  BY DEF AttachMongoShell, tabVars
<1>2. /\ s \in ShowNo /\ s <= m /\ m <= shows /\ s \in Nat /\ m \in Nat /\ shows \in Nat
  <2>1. s # None
    BY <1>1 DEF ShellInv, AskingIsBlank
  <2>2. s \in ShowNo
    BY <2>1, ShellTypes DEF MountRecord
  <2>3. QED
    BY <1>1, <2>1, <2>2, ShellTypes DEF ShellInv, NothingAhead
<1>3. /\ r \in MountRecord /\ r.phase = "attached" /\ r.screen = mounts[m].screen /\ r.live = mounts[m].live
      /\ r.listening = mounts[m].listening /\ r.session = s /\ OneMount(m, r)
      /\ r.answer = IF Known(s) THEN mongosh[s].buffer ELSE <<>>
  <2>1. mongosh[s].buffer \in Seq(Nat) /\ <<>> \in Seq(Nat)
    BY <1>2, ShellTypes DEF ShellRecord
  <2>2. /\ r \in MountRecord /\ r.phase = "attached" /\ r.screen = mounts[m].screen /\ r.live = mounts[m].live
        /\ r.listening = mounts[m].listening /\ r.session = s
        /\ r.answer = IF Known(s) THEN mongosh[s].buffer ELSE <<>>
    BY <2>1, ShellTypes, ZenonT(60) DEF MountRecord
  <2>3. mounts' = [mounts EXCEPT ![m] = r]
    BY <1>1
  <2>4. QED
    BY <2>2, <2>3 DEF OneMount
<1>4. /\ mounts' \in [ShowNo -> MountRecord] /\ mounts'[m] = r
      /\ \A t \in ShowNo \ {m} : mounts'[t] = mounts[t]
      /\ \A t \in ShowNo : mounts'[t].session = mounts[t].session
  BY <1>3, OtherMounts
<1>5. /\ mongosh' \in [ShowNo -> ShellRecord] /\ \A t \in ShowNo \ {s} : mongosh'[t] = mongosh[t]
      /\ \A t \in ShowNo : mongosh'[t].state = mongosh[t].state
      /\ mongosh'[s].streaming = (mongosh[s].streaming \/ Known(s))
      /\ mongosh'[s].buffer = IF Known(s) THEN <<>> ELSE mongosh[s].buffer
  <2>1. (mongosh[s].streaming \/ Known(s)) \in BOOLEAN
    BY <1>2, ShellTypes DEF ShellRecord, Known
  <2>2. (IF Known(s) THEN <<>> ELSE mongosh[s].buffer) \in Seq(Nat)
    BY <1>2, ShellTypes DEF ShellRecord
  <2>3. /\ n \in ShellRecord /\ n.state = mongosh[s].state
        /\ n.streaming = (mongosh[s].streaming \/ Known(s))
        /\ n.buffer = IF Known(s) THEN <<>> ELSE mongosh[s].buffer
    BY <1>2, <2>1, <2>2, ShellTypes, ZenonT(60) DEF ShellRecord
  <2>4. mongosh' = [mongosh EXCEPT ![s] = n]
    BY <1>1
  <2>5. QED
    BY <1>2, <2>3, <2>4 DEF ShellInv, ShellTyped
<1>6. ShellTyped'
  BY <1>1, <1>4, <1>5 DEF ShellInv, ShellTyped
<1>7. \A i \in DOMAIN inbox : inbox[i].type \in Answers => inbox[i].of # m
  BY <1>1 DEF ShellInv, OneAnswer
<1>8. NothingAhead'
  BY <1>1, <1>2, <1>4, ShellTypes DEF ShellInv, NothingAhead
<1>9. OneAnswer'
  <2>1. ASSUME NEW i \in DOMAIN inbox, inbox[i].type \in Answers
        PROVE  mounts'[inbox[i].of].phase = "waiting"
    <3>1. inbox[i].of \in ShowNo \ {m} /\ mounts[inbox[i].of].phase = "waiting"
      BY <1>7, <2>1, ShellTypes DEF ShellInv, OneAnswer
    <3>2. QED
      BY <1>4, <3>1
  <2>2. QED
    BY <1>1, <2>1 DEF ShellInv, OneAnswer
<1>10. AskingIsBlank'
  <2>1. ASSUME NEW t \in ShowNo
        PROVE  /\ Asks(t, inbox)' => /\ mounts'[t].screen = <<>> /\ mounts'[t].live = <<>>
                                     /\ ~mounts'[t].listening /\ mounts'[t].session # t
               /\ HasNotAsked(t, inbox)' => mongosh'[t].state = "none"
               /\ mounts'[t].phase \in {"ping", "attach"} => mounts'[t].session # None
               /\ \A i \in DOMAIN inbox' :
                    inbox'[i].of = t /\ inbox'[i].type = "pong" => mounts'[t].session # None
    <3>1. CASE t = m
      BY <1>1, <1>3, <1>4, <1>7, <3>1, SMTT(30) DEF Asks, HasNotAsked, Answers
    <3>2. CASE t # m
      <4>1. mounts'[t] = mounts[t] /\ mongosh'[t].state = mongosh[t].state
        BY <1>4, <1>5, <3>2
      <4>2. QED
        BY <1>1, <4>1 DEF ShellInv, AskingIsBlank, Asks, HasNotAsked
    <3>3. QED
      BY <3>1, <3>2
  <2>2. QED
    BY <2>1 DEF AskingIsBlank
<1>11. NothingStreams'
  <2>1. ASSUME NEW t \in ShowNo
        PROVE  /\ ~mongosh'[t].streaming => ~mongosh[t].streaming /\ mongosh'[t].buffer = mongosh[t].buffer
               /\ mongosh'[t].streaming => t < shows \/ (mounts'[t].session = t /\ mounts'[t].phase # "attach")
    <3>1. CASE t = s
      <4>1. ~mongosh'[t].streaming => ~mongosh[t].streaming /\ mongosh'[t].buffer = mongosh[t].buffer
        BY <1>5, <3>1
      <4>2. s < shows \/ (s = m /\ m = shows)
        BY <1>2
      <4>3. s = m => mounts'[s].session = s /\ mounts'[s].phase = "attached"
        BY <1>3, <1>4
      <4>4. QED
        BY <3>1, <4>1, <4>2, <4>3
    <3>2. CASE t # s
      <4>1. mongosh'[t] = mongosh[t] /\ mounts'[t].session = mounts[t].session
        BY <1>4, <1>5, <3>2
      <4>2. mounts'[t].phase # "attach" \/ mounts'[t] = mounts[t]
        BY <1>3, <1>4
      <4>3. mongosh[t].streaming => t < shows \/ (mounts[t].session = t /\ mounts[t].phase # "attach")
        BY DEF ShellInv, NothingStreams
      <4>4. QED
        BY <4>1, <4>2, <4>3
    <3>3. QED
      BY <3>1, <3>2
  <2>2. ASSUME NEW t \in ShowNo
        PROVE  /\ ~mongosh'[t].streaming =>
                    /\ mongosh'[t].buffer = Counted(written[t]) /\ pumping[t] = 0
                    /\ \A i \in DOMAIN inbox : ~(inbox[i].type = "output" /\ inbox[i].of = t)
               /\ pumping[t] # 0 => pumping[t] = written[t]
    BY <2>1 DEF ShellInv, NothingStreams
  <2>3. QED
    BY <1>1, <2>1, <2>2, ZenonT(60) DEF NothingStreams
<1>12. ExitIsOfTheDead'
  <2>1. \A i \in DOMAIN inbox : inbox[i].of \in ShowNo
    BY ShellTypes
  <2>2. ExitIsOfTheDead /\ inbox' = inbox
    BY <1>1 DEF ShellInv
  <2>3. \A t \in ShowNo : mongosh'[t].state = mongosh[t].state
    BY <1>5
  <2>4. QED
    BY <2>1, <2>2, <2>3 DEF ExitIsOfTheDead
<1>13. OwnShell'
  <2>1. CASE onDisplay /\ m = shows /\ s = m
    <3>1. /\ mounts[m].screen = <<>> /\ mounts[m].live = <<>> /\ (Alive(m) => mounts[m].listening)
          /\ ~mongosh[m].streaming
      BY <1>1, <1>2, <2>1 DEF ShellInv, OwnShell, Shown, Joining, NothingStreams
    <3>2. /\ mongosh[m].buffer = Counted(written[m]) /\ pumping[m] = 0
          /\ \A i \in DOMAIN inbox : ~IsOutput(inbox[i], m)
      BY <3>1 DEF ShellInv, NothingStreams, IsOutput
    <3>3. written[m] \in Nat
      BY ShellTypes
    <3>4. PICK k \in Nat : k = IF Known(m) THEN written[m] ELSE 0
      BY <3>3
    <3>5. r.answer = Counted(k)
      BY <1>3, <2>1, <3>2, <3>4, Nothing DEF Counted
    <3>6. Streamed(m, k, <<>>, inbox, written[m], 0)
      BY <3>2, <3>3, <3>4, Nothing DEF Streamed
    <3>7. Alive(m) => k = written[m] /\ NothingIsLost(m, k, <<>>, inbox, written[m], 0)
      BY <3>3, <3>4 DEF NothingIsLost, Alive, Known
    <3>8. /\ Streamed(m, k, r.live, inbox, written[m], pumping[m]) /\ Joining(m, k, r, inbox)
          /\ Alive(m) => r.listening /\ NothingIsLost(m, k, r.live, inbox, written[m], pumping[m])
      BY <1>3, <3>1, <3>2, <3>5, <3>6, <3>7 DEF Joining
    <3>9. Shown(m, k)'
      <4>1. Alive(m)' = Alive(m)
        BY <1>5 DEF Alive
      <4>2. /\ Streamed(m, k, r.live, inbox', written'[m], pumping'[m]) /\ Joining(m, k, r, inbox')
            /\ Alive(m)' => r.listening /\ NothingIsLost(m, k, r.live, inbox', written'[m], pumping'[m])
        BY <1>1, <3>8, <4>1
      <4>3. QED
        BY <1>4, <4>2 DEF Shown, Streamed, NothingIsLost, Joining, Alive
    <3>10. mongosh'[m].streaming \/ ~Known(m)'
      BY <1>5, <2>1 DEF Known
    <3>11. QED
      BY <1>1, <2>1, <3>9, <3>10 DEF OwnShell, Known
  <2>2. CASE onDisplay /\ m = shows /\ s # m
    BY <1>1, <1>3, <1>4, <2>2, AskingOwnsNothing
  <2>3. CASE onDisplay /\ m # shows
    <3>1. mongosh'[shows] = mongosh[shows]
      BY <1>2, <1>5, <2>3, ShellTypes
    <3>2. Sends({})
      BY <1>1, SendsNothing
    <3>3. PICK E : E = {}
      OBVIOUS
    <3>4. Sends(E) /\ \A x \in E : x.of = m /\ x.type # "output"
      BY <3>2, <3>3
    <3>5. QED
      BY <1>1, <1>3, <2>3, <3>1, <3>4, OwnBeside, ZenonT(60) DEF Known, Alive
  <2>4. CASE ~onDisplay
    BY <1>1, <2>4 DEF OwnShell
  <2>5. QED
    BY <2>1, <2>2, <2>3, <2>4
<1>14. OnlyReplacedIsOrphan'
  BY <1>1, <1>5, OrphansKept DEF Alive
<1>15. QED
  BY <1>6, <1>8, <1>9, <1>10, <1>11, <1>12, <1>13, <1>14 DEF ShellInv

\* The buffer is on its way to the mount.
LEMMA AnswerStep == ASSUME ShellInv, NEW m \in ShowNo, AnswerAttach(m) PROVE ShellInv'
<1> PICK r : r = [mounts[m] EXCEPT !.phase = "waiting", !.answer = <<>>]
  OBVIOUS
<1> PICK e : e = Message("buffered", m, mounts[m].answer)
  OBVIOUS
<1> PICK E : E = {e}
  OBVIOUS
<1>1. /\ mounts[m].phase = "attached" /\ mounts' = [mounts EXCEPT ![m] = r]
      /\ inbox' = Append(inbox, e)
      /\ UNCHANGED <<tabOpen, tabSession, shows, onDisplay, replaced, unheard, mongosh, written, pumping, stopping>>
  BY DEF AnswerAttach, Deliver, tabVars
<1>2. /\ e \in ShellMessage /\ e.of = m /\ e.type = "buffered" /\ e.type \in Answers /\ e.body = mounts[m].answer
  BY MessagesTyped, ShellTypes DEF Answers, MountRecord
<1>3. /\ r \in MountRecord /\ r.phase = "waiting" /\ r.screen = mounts[m].screen /\ r.live = mounts[m].live
      /\ r.listening = mounts[m].listening /\ r.session = mounts[m].session /\ OneMount(m, r)
  <2>1. <<>> \in Seq(Nat)
    OBVIOUS
  <2>2. /\ r \in MountRecord /\ r.phase = "waiting" /\ r.screen = mounts[m].screen /\ r.live = mounts[m].live
        /\ r.listening = mounts[m].listening /\ r.session = mounts[m].session
    BY <2>1, ShellTypes DEF MountRecord
  <2>3. QED
    BY <1>1, <2>2 DEF OneMount
<1>4. /\ mounts' \in [ShowNo -> MountRecord] /\ mounts'[m] = r
      /\ \A n \in ShowNo \ {m} : mounts'[n] = mounts[n]
      /\ \A n \in ShowNo : mounts'[n].session = mounts[n].session
  BY <1>3, OtherMounts
<1>5. /\ NothingAhead' /\ OneAnswer'
      /\ \A i \in DOMAIN inbox' : inbox'[i].type \in Answers /\ inbox'[i].of = m => inbox'[i] = e
      /\ \A n \in ShowNo \ {m} : (Asks(n, inbox)' => Asks(n, inbox))
                                 /\ (HasNotAsked(n, inbox)' => HasNotAsked(n, inbox))
      /\ ~Asks(m, inbox)' /\ ~HasNotAsked(m, inbox)'
      /\ \A i \in DOMAIN inbox' : (i \in DOMAIN inbox /\ inbox'[i] = inbox[i]) \/ inbox'[i] = e
      /\ inbox' \in Seq(ShellMessage) /\ \A x \in Range(inbox) : x \in Range(inbox')
  BY <1>1, <1>2, <1>3, AnswerSent, ZenonT(60)
<1>6. ShellTyped'
  BY <1>1, <1>4, <1>5 DEF ShellInv, ShellTyped
<1>7. AskingIsBlank'
  <2>1. ASSUME NEW n \in ShowNo
        PROVE  /\ Asks(n, inbox)' => /\ mounts'[n].screen = <<>> /\ mounts'[n].live = <<>>
                                     /\ ~mounts'[n].listening /\ mounts'[n].session # n
               /\ HasNotAsked(n, inbox)' => mongosh'[n].state = "none"
               /\ mounts'[n].phase \in {"ping", "attach"} => mounts'[n].session # None
               /\ \A i \in DOMAIN inbox' :
                    inbox'[i].of = n /\ inbox'[i].type = "pong" => mounts'[n].session # None
    <3>1. CASE n = m
      <4>1. \A i \in DOMAIN inbox' : inbox'[i].of = m => inbox'[i].type # "pong"
        BY <1>2, <1>5 DEF Answers
      <4>2. QED
        BY <1>3, <1>4, <1>5, <3>1, <4>1
    <3>2. CASE n # m
      <4>1. \A i \in DOMAIN inbox' : inbox'[i].of = n => i \in DOMAIN inbox /\ inbox'[i] = inbox[i]
        BY <1>2, <1>5, <3>2
      <4>2. mounts'[n] = mounts[n] /\ mongosh'[n] = mongosh[n]
        BY <1>1, <1>4, <3>2
      <4>3. QED
        BY <1>5, <3>2, <4>1, <4>2 DEF ShellInv, AskingIsBlank
    <3>3. QED
      BY <3>1, <3>2
  <2>2. QED
    BY <2>1 DEF AskingIsBlank
<1>8. NothingStreams'
  <2>1. ASSUME NEW s \in ShowNo, mongosh[s].streaming
        PROVE  s < shows \/ (mounts'[s].session = s /\ mounts'[s].phase # "attach")
    BY <1>3, <1>4, <2>1, ZenonT(60) DEF ShellInv, NothingStreams
  <2>2. \A s \in ShowNo, i \in DOMAIN inbox' :
           inbox'[i].type = "output" /\ inbox'[i].of = s => i \in DOMAIN inbox /\ inbox'[i] = inbox[i]
    BY <1>2, <1>5
  <2>3. QED
    BY <1>1, <2>1, <2>2 DEF ShellInv, NothingStreams
<1>9. ExitIsOfTheDead'
  BY <1>1, <1>2, <1>5 DEF ShellInv, ExitIsOfTheDead
<1>10. OwnShell'
  <2>1. CASE onDisplay /\ m = shows /\ mounts[m].session = m
    <3>1. PICK k \in Nat : Shown(m, k) /\ (mongosh[m].streaming \/ ~Known(m))
      BY <1>1, <2>1 DEF ShellInv, OwnShell, Known
    <3>2. /\ Streamed(m, k, r.live, inbox, written[m], pumping[m])
          /\ mounts[m].answer = Counted(k) /\ r.screen = r.live
          /\ Alive(m) => r.listening /\ NothingIsLost(m, k, r.live, inbox, written[m], pumping[m])
      BY <1>1, <1>3, <3>1 DEF Shown, Joining
    <3>3. ~IsOutput(e, m) /\ r.live \in Seq(Nat)
      BY <1>2, <1>3 DEF IsOutput, MountRecord
    <3>4. /\ Streamed(m, k, r.live, inbox', written[m], pumping[m])
          /\ Alive(m) => NothingIsLost(m, k, r.live, inbox', written[m], pumping[m])
      BY <1>1, <1>2, <3>2, <3>3, OtherSent, ShellTypes
    <3>5. Joining(m, k, r, inbox')
      BY <1>2, <1>3, <1>5, <3>2 DEF Joining
    <3>6. Shown(m, k)'
      BY <1>1, <1>4, <3>2, <3>4, <3>5, SMTT(30) DEF Shown, Streamed, NothingIsLost, Joining, Alive
    <3>7. QED
      BY <1>1, <2>1, <3>1, <3>6 DEF OwnShell, Known
  <2>2. CASE m = shows /\ mounts[m].session # m
    BY <1>1, <1>3, <1>4, <2>2, AskingOwnsNothing
  <2>3. CASE m # shows
    <3>1. Sends(E) /\ \A x \in E : x.of = m /\ x.type # "output"
      BY <1>1, <1>2 DEF Sends
    <3>2. QED
      BY <1>1, <1>3, <2>3, <3>1, OwnBeside DEF Known, Alive
  <2>4. CASE ~onDisplay
    BY <1>1, <2>4 DEF OwnShell
  <2>5. QED
    BY <2>1, <2>2, <2>3, <2>4
<1>11. OnlyReplacedIsOrphan'
  BY <1>1, <1>5, OrphansKept DEF Alive
<1>12. QED
  BY <1>5, <1>6, <1>7, <1>8, <1>9, <1>10, <1>11 DEF ShellInv
-----------------------------------------------------------------------------
(* What the window takes from its queue.                                    *)

\* The queue without its head.
LEMMA TakenAt ==
    ASSUME ShellInv, inbox # <<>>, inbox' = Tail(inbox), NEW h, h = Head(inbox)
    PROVE  /\ inbox' \in Seq(ShellMessage) /\ h \in ShellMessage /\ h.of \in ShowNo /\ h.of <= shows
           /\ \A i \in DOMAIN inbox' : \E j \in DOMAIN inbox : inbox[j] = inbox'[i]
           /\ \A x \in Range(inbox) : x = h \/ x \in Range(inbox')
           /\ h.type \in Answers =>
                 /\ mounts[h.of].phase = "waiting"
                 /\ \A i \in DOMAIN inbox' : inbox'[i].type \in Answers => inbox'[i].of # h.of
           /\ \A i, j \in DOMAIN inbox' :
                 inbox'[i].type \in Answers /\ inbox'[j].type \in Answers /\ inbox'[i].of = inbox'[j].of => i = j
           /\ \E i \in DOMAIN inbox : inbox[i] = h
<1> PICK rest : rest = Tail(inbox)
  OBVIOUS
<1>1. /\ h \in ShellMessage /\ rest \in Seq(ShellMessage) /\ h = inbox[1] /\ 1 \in DOMAIN inbox
      /\ \A i \in DOMAIN inbox : i = 1 \/ (i - 1 \in DOMAIN rest /\ rest[i - 1] = inbox[i])
      /\ \A i \in DOMAIN rest : i \in Nat /\ i + 1 \in DOMAIN inbox /\ rest[i] = inbox[i + 1] /\ 1 < i + 1
  BY Shrunk, ShellTypes
<1>2. h.of \in ShowNo /\ h.of <= shows
  BY <1>1, ShellTypes DEF ShellInv, NothingAhead
<1>3. \A i \in DOMAIN rest : \E j \in DOMAIN inbox : inbox[j] = rest[i]
  BY <1>1
<1>4. \A i \in DOMAIN inbox : inbox[i] = h \/ \E j \in DOMAIN rest : rest[j] = inbox[i]
  BY <1>1
<1>5. \A x \in Range(inbox) : x = h \/ x \in Range(rest)
  BY <1>4 DEF Range
<1>6. ASSUME h.type \in Answers
      PROVE  /\ mounts[h.of].phase = "waiting"
             /\ \A i \in DOMAIN rest : rest[i].type \in Answers => rest[i].of # h.of
  BY <1>1, <1>6 DEF ShellInv, OneAnswer
<1>7. ASSUME NEW i \in DOMAIN rest, NEW j \in DOMAIN rest, rest[i].type \in Answers, rest[j].type \in Answers,
             rest[i].of = rest[j].of
      PROVE  i = j
  <2>1. i + 1 = j + 1
    BY <1>1, <1>7 DEF ShellInv, OneAnswer
  <2>2. QED
    BY <1>1, <2>1
<1>8. QED
  BY <1>1, <1>2, <1>3, <1>5, <1>6, <1>7

\* What holds of the mounts when an answer is taken, and one mount changes: m, for which
\* the answer was.
LEMMA AnswerTaken ==
    ASSUME ShellInv, inbox # <<>>, inbox' = Tail(inbox), UNCHANGED shows,
           NEW m \in ShowNo, Head(inbox).of = m, Head(inbox).type \in Answers,
           NEW r \in MountRecord, r.session \in {mounts[m].session, m}, mounts' = [mounts EXCEPT ![m] = r]
    PROVE  /\ NothingAhead' /\ OneAnswer' /\ mounts[m].phase = "waiting" /\ m <= shows
           /\ inbox' \in Seq(ShellMessage) /\ mounts' \in [ShowNo -> MountRecord]
           /\ mounts'[m] = r /\ \A n \in ShowNo \ {m} : mounts'[n] = mounts[n]
           /\ \A i \in DOMAIN inbox' : inbox'[i].type \in Answers => inbox'[i].of # m
           /\ \A i \in DOMAIN inbox' : \E j \in DOMAIN inbox : inbox[j] = inbox'[i]
           /\ \A n \in ShowNo \ {m} : (Asks(n, inbox)' => Asks(n, inbox))
                                      /\ (HasNotAsked(n, inbox)' => HasNotAsked(n, inbox))
           /\ Asks(m, inbox)' => r.phase \in {"none", "ping", "start"}
           /\ HasNotAsked(m, inbox)' => r.phase \in {"none", "ping", "start"}
           /\ \A x \in Range(inbox) : x = Head(inbox) \/ x \in Range(inbox')
<1> PICK h : h = Head(inbox)
  OBVIOUS
<1>1. /\ inbox' \in Seq(ShellMessage) /\ h \in ShellMessage /\ m <= shows
      /\ \A i \in DOMAIN inbox' : \E j \in DOMAIN inbox : inbox[j] = inbox'[i]
      /\ \A x \in Range(inbox) : x = h \/ x \in Range(inbox')
      /\ mounts[m].phase = "waiting"
      /\ \A i \in DOMAIN inbox' : inbox'[i].type \in Answers => inbox'[i].of # m
      /\ \A i, j \in DOMAIN inbox' :
            inbox'[i].type \in Answers /\ inbox'[j].type \in Answers /\ inbox'[i].of = inbox'[j].of => i = j
  BY TakenAt
<1>2. /\ mounts' \in [ShowNo -> MountRecord] /\ mounts'[m] = r /\ \A n \in ShowNo \ {m} : mounts'[n] = mounts[n]
  BY DEF ShellInv, ShellTyped
<1>3. NothingAhead'
  <2>1. \A n \in ShowNo : n > shows => n # m
    BY <1>1, ShellTypes
  <2>2. \A n \in ShowNo : mounts'[n].session # None => mounts'[n].session <= n
    <3>1. m <= m
      BY ShellTypes
    <3>2. QED
      BY <1>2, <3>1, ShellTypes DEF ShellInv, NothingAhead
  <2>3. QED
    BY <1>1, <1>2, <2>1, <2>2 DEF ShellInv, NothingAhead
<1>4. OneAnswer'
  <2>1. ASSUME NEW i \in DOMAIN inbox', inbox'[i].type \in Answers
        PROVE  mounts'[inbox'[i].of].phase = "waiting"
    <3>1. PICK j \in DOMAIN inbox : inbox[j] = inbox'[i]
      BY <1>1
    <3>2. inbox'[i].of \in ShowNo \ {m} /\ mounts[inbox'[i].of].phase = "waiting"
      BY <1>1, <2>1, <3>1, ShellTypes DEF ShellInv, OneAnswer
    <3>3. QED
      BY <1>2, <3>2
  <2>2. QED
    BY <1>1, <2>1 DEF OneAnswer
<1>5. \A n \in ShowNo \ {m} : (Asks(n, inbox)' => Asks(n, inbox))
                              /\ (HasNotAsked(n, inbox)' => HasNotAsked(n, inbox))
  BY <1>1, <1>2 DEF Asks, HasNotAsked
<1>6. /\ Asks(m, inbox)' => r.phase \in {"none", "ping", "start"}
      /\ HasNotAsked(m, inbox)' => r.phase \in {"none", "ping", "start"}
  BY <1>1, <1>2 DEF Asks, HasNotAsked, Answers
<1>7. QED
  BY <1>1, <1>2, <1>3, <1>4, <1>5, <1>6

\* The sessions' part, when messages are taken and nothing is added.
LEMMA StreamsKept ==
    ASSUME ShellInv, UNCHANGED <<shows, mongosh, written, pumping>>,
           \A i \in DOMAIN inbox' : \E j \in DOMAIN inbox : inbox[j] = inbox'[i],
           \A s \in ShowNo : mongosh[s].streaming =>
              s < shows \/ (mounts'[s].session = s /\ mounts'[s].phase # "attach")
    PROVE  NothingStreams' /\ ExitIsOfTheDead'
<1>1. NothingStreams'
  <2>1. ASSUME NEW s \in ShowNo
        PROVE  /\ ~mongosh[s].streaming =>
                    /\ mongosh[s].buffer = Counted(written[s]) /\ pumping[s] = 0
                    /\ \A i \in DOMAIN inbox' : ~(inbox'[i].type = "output" /\ inbox'[i].of = s)
               /\ pumping[s] # 0 => pumping[s] = written[s]
    BY DEF ShellInv, NothingStreams
  <2>2. QED
    BY <2>1 DEF NothingStreams
<1>2. ExitIsOfTheDead'
  BY DEF ShellInv, ExitIsOfTheDead
<1>3. QED
  BY <1>1, <1>2

\* The mount on display keeps its story when a message is taken that is not for it.
LEMMA OwnTaken ==
    ASSUME ShellInv, UNCHANGED <<shows, onDisplay, mongosh, written, pumping>>, inbox # <<>>, inbox' = Tail(inbox),
           onDisplay => mounts'[shows] = mounts[shows],
           onDisplay /\ Alive(shows) => ~IsOutput(Head(inbox), shows)
    PROVE  OwnShell'
<1> SUFFICES ASSUME onDisplay PROVE OwnShell'
  BY DEF OwnShell
<1> PICK one : one = mounts[shows]
  OBVIOUS
<1>1. /\ inbox \in Seq(ShellMessage) /\ one.live \in Seq(Nat) /\ written[shows] \in Nat
      /\ pumping[shows] \in Nat /\ shows \in ShowNo /\ OwnShell
  BY DEF ShellInv, ShellTyped, MountRecord
<1>2. Alive(shows)' = Alive(shows) /\ Known(shows)' = Known(shows)
  BY DEF Alive, Known
<1>3. ASSUME NEW k \in Nat, Streamed(shows, k, one.live, inbox, written[shows], pumping[shows])
      PROVE  /\ Streamed(shows, k, one.live, inbox', written[shows], pumping[shows])
             /\ /\ Alive(shows)'
                /\ NothingIsLost(shows, k, one.live, inbox, written[shows], pumping[shows])
                => NothingIsLost(shows, k, one.live, inbox', written[shows], pumping[shows])
  BY <1>1, <1>2, <1>3, OtherTaken
<1>4. ASSUME NEW k \in Nat, Joining(shows, k, one, inbox) PROVE Joining(shows, k, one, inbox')
  <2>1. \A i \in DOMAIN inbox' : \E j \in DOMAIN inbox : inbox[j] = inbox'[i]
    BY TakenAt
  <2>2. QED
    BY <1>4, <2>1, OtherMessages, ZenonT(60)
<1>5. QED
  BY <1>1, <1>2, <1>3, <1>4, OwnKept
\* And its part in what the mounts know.
LEMMA BlankTaken ==
    ASSUME ShellInv, inbox # <<>>, inbox' = Tail(inbox), UNCHANGED <<shows, mongosh>>,
           NEW m \in ShowNo, Head(inbox).of = m, Head(inbox).type \in Answers,
           NEW r \in MountRecord, r.session \in {mounts[m].session, m}, mounts' = [mounts EXCEPT ![m] = r],
           r.phase \in {"none", "ping", "start"} =>
              /\ r.screen = <<>> /\ r.live = <<>> /\ ~r.listening /\ r.session # m
              /\ mongosh[m].state = "none",
           r.phase \in {"ping", "attach"} => r.session # None
    PROVE  AskingIsBlank'
<1>1. /\ mounts'[m] = r /\ \A n \in ShowNo \ {m} : mounts'[n] = mounts[n]
      /\ \A i \in DOMAIN inbox' : inbox'[i].type \in Answers => inbox'[i].of # m
      /\ \A i \in DOMAIN inbox' : \E j \in DOMAIN inbox : inbox[j] = inbox'[i]
      /\ \A n \in ShowNo \ {m} : (Asks(n, inbox)' => Asks(n, inbox))
                                 /\ (HasNotAsked(n, inbox)' => HasNotAsked(n, inbox))
      /\ Asks(m, inbox)' => r.phase \in {"none", "ping", "start"}
      /\ HasNotAsked(m, inbox)' => r.phase \in {"none", "ping", "start"}
  BY AnswerTaken
<1>2. ASSUME NEW n \in ShowNo
      PROVE  /\ Asks(n, inbox)' => /\ mounts'[n].screen = <<>> /\ mounts'[n].live = <<>>
                                   /\ ~mounts'[n].listening /\ mounts'[n].session # n
             /\ HasNotAsked(n, inbox)' => mongosh'[n].state = "none"
             /\ mounts'[n].phase \in {"ping", "attach"} => mounts'[n].session # None
             /\ \A i \in DOMAIN inbox' :
                  inbox'[i].of = n /\ inbox'[i].type = "pong" => mounts'[n].session # None
  <2>1. CASE n = m
    BY <1>1, <2>1 DEF Answers
  <2>2. CASE n # m
    BY <1>1, <2>2 DEF ShellInv, AskingIsBlank
  <2>3. QED
    BY <2>1, <2>2
<1>3. QED
  BY <1>2 DEF AskingIsBlank

\* What every message that is taken was.
LEMMA MessageTaken ==
    ASSUME NEW m, NEW t, NEW b, TakeMessage(Message(t, m, b))
    PROVE  /\ inbox # <<>> /\ inbox' = Tail(inbox) /\ Head(inbox) = Message(t, m, b)
           /\ Head(inbox).of = m /\ Head(inbox).type = t /\ Head(inbox).body = b
  BY DEF TakeMessage, Message

\* The invariant after an answer is taken, but for what its effect has to show.
LEMMA Taken ==
    ASSUME ShellInv, inbox # <<>>, inbox' = Tail(inbox),
           UNCHANGED <<tabVars, mongosh, written, pumping, stopping>>,
           NEW m \in ShowNo, Head(inbox).of = m, Head(inbox).type \in Answers, Head(inbox).type # "started",
           NEW r \in MountRecord, r.session = mounts[m].session, mounts' = [mounts EXCEPT ![m] = r],
           AskingIsBlank',
           onDisplay /\ m = shows => r = mounts[m] \/ r.session # m \/ OwnShell',
           mongosh[m].streaming => m < shows \/ (r.session = m /\ r.phase # "attach")
    PROVE  ShellInv'
<1>1. /\ NothingAhead' /\ OneAnswer'
      /\ inbox' \in Seq(ShellMessage) /\ mounts' \in [ShowNo -> MountRecord]
      /\ mounts'[m] = r /\ \A n \in ShowNo \ {m} : mounts'[n] = mounts[n]
      /\ \A i \in DOMAIN inbox' : \E j \in DOMAIN inbox : inbox[j] = inbox'[i]
      /\ \A x \in Range(inbox) : x = Head(inbox) \/ x \in Range(inbox')
  BY AnswerTaken DEF tabVars
<1>2. ShellTyped'
  BY <1>1 DEF ShellInv, ShellTyped, tabVars
<1>3. NothingStreams' /\ ExitIsOfTheDead'
  <2>1. ASSUME NEW s \in ShowNo, mongosh[s].streaming
        PROVE  s < shows \/ (mounts'[s].session = s /\ mounts'[s].phase # "attach")
    <3>1. CASE s = m
      BY <1>1, <2>1, <3>1
    <3>2. CASE s # m
      BY <1>1, <2>1, <3>2 DEF ShellInv, NothingStreams
    <3>3. QED
      BY <3>1, <3>2
  <2>2. QED
    BY <1>1, <2>1, StreamsKept DEF tabVars
<1>4. OwnShell'
  <2>1. CASE onDisplay /\ m = shows /\ r.session # m
    BY <1>1, <2>1, AskingOwnsNothing DEF tabVars
  <2>2. CASE ~onDisplay \/ m # shows \/ r = mounts[m]
    <3>1. onDisplay => mounts'[shows] = mounts[shows]
      BY <1>1, <2>2, ShellTypes
    <3>2. ~IsOutput(Head(inbox), shows)
      BY DEF IsOutput, Answers
    <3>3. QED
      BY <3>1, <3>2, OwnTaken DEF tabVars
  <2>3. QED
    BY <2>1, <2>2
<1>5. OnlyReplacedIsOrphan'
  <2>1. \A s \in ShowNo : Alive(s)' => Alive(s)
    BY DEF Alive
  <2>2. QED
    BY <1>1, <2>1, OrphansKept DEF tabVars
<1>6. QED
  BY <1>1, <1>2, <1>3, <1>4, <1>5 DEF ShellInv

\* The session that a mount remembers lives, or does not.
LEMMA PongStep == ASSUME ShellInv, NEW m \in ShowNo, NEW alive \in BOOLEAN, ReceivePong(m, alive) PROVE ShellInv'
<1>1. /\ inbox # <<>> /\ inbox' = Tail(inbox) /\ Head(inbox).of = m /\ Head(inbox).type = "pong"
      /\ Head(inbox).type \in Answers
      /\ UNCHANGED <<tabVars, mongosh, written, pumping, stopping>>
  BY MessageTaken DEF ReceivePong, Answers
<1>2. /\ mounts[m].screen = <<>> /\ mounts[m].live = <<>> /\ ~mounts[m].listening
      /\ mounts[m].session # m /\ mounts[m].session # None /\ mongosh[m].state = "none"
      /\ mounts[m].phase = "waiting" /\ mounts[m] \in MountRecord
  <2>1. PICK i \in DOMAIN inbox : inbox[i] = Head(inbox)
    BY <1>1, TakenAt
  <2>2. QED
    BY <1>1, <2>1, ShellTypes DEF ShellInv, AskingIsBlank, OneAnswer, Asks, HasNotAsked
<1>3. PICK r \in MountRecord : /\ mounts' = [mounts EXCEPT ![m] = r] /\ r.session = mounts[m].session
                               /\ r.phase \in {"waiting", "attach", "start"}
                               /\ r.phase = "start" => r.screen = <<>> /\ r.live = <<>> /\ ~r.listening
  <2>1. CASE Aborted(m)
    <3>1. mounts' = mounts
      BY <2>1 DEF ReceivePong
    <3>2. mounts' = [mounts EXCEPT ![m] = mounts[m]]
      BY <3>1 DEF ShellInv, ShellTyped
    <3>3. QED
      BY <1>2, <3>2
  <2>2. CASE ~Aborted(m) /\ alive
    <3>1. PICK r : r = [mounts[m] EXCEPT !.session = mounts[m].session, !.phase = "attach", !.listening = TRUE]
      OBVIOUS
    <3>2. r \in MountRecord /\ r.session = mounts[m].session /\ r.phase = "attach"
      BY <1>2, <3>1 DEF MountRecord
    <3>3. mounts' = [mounts EXCEPT ![m] = r]
      BY <2>2, <3>1 DEF ReceivePong, Attaching
    <3>4. QED
      BY <3>2, <3>3
  <2>3. CASE ~Aborted(m) /\ ~alive
    <3>1. PICK r : r = [mounts[m] EXCEPT !.phase = "start"]
      OBVIOUS
    <3>2. /\ r \in MountRecord /\ r.session = mounts[m].session /\ r.phase = "start"
          /\ r.screen = <<>> /\ r.live = <<>> /\ ~r.listening
      BY <1>2, <3>1 DEF MountRecord
    <3>3. mounts' = [mounts EXCEPT ![m] = r]
      BY <2>3, <3>1 DEF ReceivePong
    <3>4. QED
      BY <3>2, <3>3
  <2>4. QED
    BY <2>1, <2>2, <2>3
<1>4. AskingIsBlank'
  BY <1>1, <1>2, <1>3, BlankTaken DEF tabVars
<1>5. mongosh[m].streaming => m < shows
  BY <1>2 DEF ShellInv, NothingStreams
<1>6. QED
  BY <1>1, <1>2, <1>3, <1>4, <1>5, Taken

\* The start failed.
LEMMA FailedStep == ASSUME ShellInv, NEW m \in ShowNo, ReceiveFailed(m) PROVE ShellInv'
<1>1. /\ inbox # <<>> /\ inbox' = Tail(inbox) /\ Head(inbox).of = m /\ Head(inbox).type = "failed"
      /\ Head(inbox).type \in Answers
      /\ UNCHANGED <<tabVars, mounts, mongosh, written, pumping, stopping>>
  BY MessageTaken DEF ReceiveFailed, Answers
<1>2. mounts[m].session # m /\ mounts[m].phase = "waiting" /\ mounts[m] \in MountRecord
  <2>1. PICK i \in DOMAIN inbox : inbox[i] = Head(inbox)
    BY <1>1, TakenAt
  <2>2. QED
    BY <1>1, <2>1, ShellTypes DEF ShellInv, AskingIsBlank, OneAnswer, Asks, HasNotAsked
<1>3. mounts' = [mounts EXCEPT ![m] = mounts[m]]
  BY <1>1 DEF ShellInv, ShellTyped
<1>4. AskingIsBlank'
  BY <1>1, <1>2, <1>3, BlankTaken DEF tabVars
<1>5. mongosh[m].streaming => m < shows
  BY <1>2 DEF ShellInv, NothingStreams
<1>6. QED
  BY <1>1, <1>2, <1>3, <1>4, <1>5, Taken
\* The session that the mount asked for runs: it becomes the tab's, and the mount's.
LEMMA StartedStep == ASSUME ShellInv, NEW m \in ShowNo, ReceiveStarted(m) PROVE ShellInv'
<1>1. /\ inbox # <<>> /\ inbox' = Tail(inbox) /\ Head(inbox) = Message("started", m, m)
      /\ Head(inbox).of = m /\ Head(inbox).type = "started" /\ Head(inbox).type \in Answers
      /\ UNCHANGED <<tabOpen, shows, onDisplay, unheard, mongosh, written, pumping>>
  BY MessageTaken DEF ReceiveStarted, Answers, tabVars
<1>2. /\ mounts[m].screen = <<>> /\ mounts[m].live = <<>> /\ ~mounts[m].listening
      /\ mounts[m].session # m /\ mounts[m].phase = "waiting" /\ mounts[m] \in MountRecord
  <2>1. PICK i \in DOMAIN inbox : inbox[i] = Head(inbox)
    BY <1>1, TakenAt
  <2>2. QED
    BY <1>1, <2>1, ShellTypes DEF ShellInv, AskingIsBlank, OneAnswer, Asks
<1>3. PICK r \in MountRecord :
         /\ mounts' = [mounts EXCEPT ![m] = r] /\ r.session \in {mounts[m].session, m}
         /\ \/ r = mounts[m] /\ (m \in unheard \/ Aborted(m))
            \/ /\ r.session = m /\ r.phase = "attach" /\ r.screen = <<>> /\ r.live = <<>> /\ r.listening
               /\ ~Aborted(m) /\ m \notin unheard
  <2>1. CASE m \in unheard \/ Aborted(m)
    <3>1. mounts' = mounts
      BY <2>1 DEF ReceiveStarted
    <3>2. mounts' = [mounts EXCEPT ![m] = mounts[m]]
      BY <3>1 DEF ShellInv, ShellTyped
    <3>3. QED
      BY <1>2, <2>1, <3>2
  <2>2. CASE m \notin unheard /\ ~Aborted(m)
    <3>1. PICK r : r = [mounts[m] EXCEPT !.session = m, !.phase = "attach", !.listening = TRUE]
      OBVIOUS
    <3>2. /\ r \in MountRecord /\ r.session = m /\ r.phase = "attach" /\ r.screen = <<>> /\ r.live = <<>>
          /\ r.listening
      BY <1>2, <3>1 DEF MountRecord
    <3>3. mounts' = [mounts EXCEPT ![m] = r]
      BY <2>2, <3>1 DEF ReceiveStarted, Attaching
    <3>4. QED
      BY <2>2, <3>2, <3>3
  <2>3. QED
    BY <2>1, <2>2
<1>4. /\ NothingAhead' /\ OneAnswer' /\ m <= shows
      /\ inbox' \in Seq(ShellMessage) /\ mounts' \in [ShowNo -> MountRecord]
      /\ mounts'[m] = r /\ \A n \in ShowNo \ {m} : mounts'[n] = mounts[n]
      /\ \A i \in DOMAIN inbox' : \E j \in DOMAIN inbox : inbox[j] = inbox'[i]
      /\ \A x \in Range(inbox) : x = Head(inbox) \/ x \in Range(inbox')
  BY <1>1, <1>3, AnswerTaken
<1>5. /\ m \in unheard => UNCHANGED <<tabSession, replaced, stopping>>
      /\ m \notin unheard =>
            /\ tabSession' = IF tabOpen THEN m ELSE tabSession
            /\ replaced' = IF tabOpen /\ tabSession # None THEN replaced \cup {tabSession} ELSE replaced
            /\ stopping' = IF Aborted(m) THEN stopping \cup {m} ELSE stopping
  BY DEF ReceiveStarted, tabVars
<1>6. ShellTyped'
  <2>1. tabSession' \in 1 .. shows \cup {None} /\ stopping' \subseteq ShowNo
    <3>1. m \in 1 .. shows
      BY <1>4 DEF ShowNo
    <3>2. QED
      BY <1>5, <3>1 DEF ShellInv, ShellTyped
  <2>2. QED
    BY <1>1, <1>4, <2>1 DEF ShellInv, ShellTyped
<1>7. AskingIsBlank'
  <2>1. /\ r.phase \notin {"none", "ping", "start"}
        /\ r.phase \in {"ping", "attach"} => r.session # None
    BY <1>2, <1>3, ShellTypes
  <2>2. QED
    BY <1>1, <1>3, <2>1, BlankTaken
<1>8. NothingStreams' /\ ExitIsOfTheDead'
  <2>1. ASSUME NEW s \in ShowNo, mongosh[s].streaming
        PROVE  s < shows \/ (mounts'[s].session = s /\ mounts'[s].phase # "attach")
    BY <1>2, <1>4, <2>1 DEF ShellInv, NothingStreams
  <2>2. QED
    BY <1>1, <1>4, <2>1, StreamsKept
<1>9. OwnShell'
  <2>1. CASE ~Aborted(m) /\ m \notin unheard
    <3>1. onDisplay /\ m = shows
      BY <2>1 DEF Aborted
    <3>2. QED
      BY <1>1, <1>3, <1>4, <2>1, <3>1 DEF OwnShell
  <2>2. CASE m \in unheard \/ Aborted(m)
    <3>1. CASE onDisplay /\ m = shows
      BY <1>1, <1>2, <1>3, <1>4, <2>2, <3>1, AskingOwnsNothing
    <3>2. CASE ~onDisplay \/ m # shows
      <4>1. onDisplay => mounts'[shows] = mounts[shows]
        BY <1>4, <3>2, ShellTypes
      <4>2. ~IsOutput(Head(inbox), shows)
        BY <1>1 DEF IsOutput
      <4>3. QED
        BY <1>1, <4>1, <4>2, OwnTaken
    <3>3. QED
      BY <3>1, <3>2
  <2>3. QED
    BY <2>1, <2>2
<1>10. OnlyReplacedIsOrphan'
  <2>1. SUFFICES ASSUME NEW s \in ShowNo, Alive(s)'
                 PROVE  Referenced(s)' \/ s \in unheard' \cup replaced'
    BY DEF OnlyReplacedIsOrphan
  <2>2. Referenced(s) \/ s \in unheard \cup replaced
    BY <1>1, <2>1 DEF ShellInv, OnlyReplacedIsOrphan, Alive
  <2>3. CASE tabOpen /\ tabSession = s
    BY <1>1, <1>5, <2>3, ShellTypes DEF Referenced
  <2>4. CASE s \in stopping
    <3>1. s \in stopping'
      BY <1>5, <2>4
    <3>2. QED
      BY <3>1 DEF Referenced
  <2>5. CASE s \in unheard \cup replaced
    BY <1>1, <1>5, <2>5
  <2>6. CASE Message("started", s, s) \in Range(inbox)
    <3>1. CASE s # m
      <4>1. Message("started", s, s) \in Range(inbox')
        BY <1>1, <1>4, <2>6, <3>1 DEF Message
      <4>2. QED
        BY <4>1 DEF Referenced, Message
    <3>2. CASE s = m /\ m \notin unheard
      <4>1. Aborted(m) \/ tabOpen
        BY ShellTypes DEF Aborted
      <4>2. QED
        BY <1>1, <1>5, <3>2, <4>1 DEF Referenced
    <3>3. CASE s = m /\ m \in unheard
      BY <1>1, <3>3
    <3>4. QED
      BY <3>1, <3>2, <3>3
  <2>7. QED
    BY <2>2, <2>3, <2>4, <2>5, <2>6 DEF Referenced
<1>11. QED
  BY <1>4, <1>6, <1>7, <1>8, <1>9, <1>10 DEF ShellInv

\* The buffered text goes to the screen after what was streamed before it came.
LEMMA ScreenJoined ==
    ASSUME NEW k \in Nat, NEW live \in Seq(Nat), NEW body, body = Counted(k),
           \A i \in DOMAIN live : k < live[i], \A i, j \in DOMAIN live : i < j => live[i] < live[j]
    PROVE  /\ live \o body \in Seq(Nat) /\ IsInjective(live \o body)
           /\ Range(live \o body) = 1 .. k \cup Range(live)
<1> PICK n \in Nat : n = Len(live)
  OBVIOUS
<1> PICK all : all = live \o body
  OBVIOUS
<1>1. body \in Seq(Nat) /\ Len(body) = k /\ \A i \in 1 .. k : body[i] = i
  BY DEF Counted
<1>2. /\ all \in Seq(Nat) /\ DOMAIN all = 1 .. n + k
      /\ \A i \in 1 .. n : all[i] = live[i]
      /\ \A i \in n + 1 .. n + k : all[i] = i - n
  <2>1. /\ all \in Seq(Nat) /\ Len(all) = n + k
        /\ \A i \in 1 .. n + k : all[i] = IF i <= n THEN live[i] ELSE body[i - n]
    <3>1. /\ live \o body \in Seq(Nat) /\ Len(live \o body) = Len(live) + Len(body)
          /\ \A i \in 1 .. Len(live) + Len(body) :
                (live \o body)[i] = IF i <= Len(live) THEN live[i] ELSE body[i - Len(live)]
      BY <1>1, ConcatProperties
    <3>2. QED
      BY <1>1, <3>1
  <2>2. \A i \in 1 .. n : i \in 1 .. n + k /\ i <= n
    OBVIOUS
  <2>3. \A i \in n + 1 .. n + k : i \in 1 .. n + k /\ ~(i <= n) /\ i - n \in 1 .. k
    OBVIOUS
  <2>4. \A i \in n + 1 .. n + k : all[i] = i - n
    BY <1>1, <2>1, <2>3
  <2>5. QED
    BY <2>1, <2>2, <2>4
<1>3. DOMAIN live = 1 .. n /\ \A i \in 1 .. n : live[i] \in Nat
  OBVIOUS
<1>4. \A i \in 1 .. n + k : i \in Nat /\ (i \in 1 .. n \/ i \in n + 1 .. n + k)
  OBVIOUS
<1>5. ASSUME NEW i \in 1 .. n, NEW j \in n + 1 .. n + k PROVE all[i] # all[j]
  <2>1. k < live[i] /\ live[i] \in Nat /\ all[i] = live[i]
    BY <1>2, <1>3
  <2>2. all[j] = j - n /\ j - n <= k /\ j - n \in Nat
    <3>1. j - n <= k /\ j - n \in Nat
      OBVIOUS
    <3>2. all[j] = j - n
      BY <1>2
    <3>3. QED
      BY <3>1, <3>2
  <2>3. PICK d \in Nat : d = j - n
    BY <2>2
  <2>4. PICK x \in Nat : x = live[i]
    BY <2>1
  <2>5. x # d
    <3>1. k < x /\ d <= k
      BY <2>1, <2>2, <2>3, <2>4
    <3>2. QED
      BY <3>1
  <2>6. QED
    BY <2>1, <2>2, <2>3, <2>4, <2>5
<1>6. ASSUME NEW i \in 1 .. n, NEW j \in 1 .. n, all[i] = all[j] PROVE i = j
  <2>1. PICK x \in Nat, y \in Nat : x = live[i] /\ y = live[j]
    BY <1>3
  <2>2. x = y
    BY <1>2, <1>6, <2>1
  <2>3. (i < j => x < y) /\ (j < i => y < x)
    BY <1>3, <2>1
  <2>4. QED
    BY <2>2, <2>3
<1>7. \A i, j \in n + 1 .. n + k : all[i] = all[j] => i = j
  BY <1>2
<1>8. IsInjective(all)
  BY <1>2, <1>4, <1>5, <1>6, <1>7, SMTT(30) DEF IsInjective
<1>9. Range(all) = 1 .. k \cup Range(live)
  <2>1. \A x \in Range(all) : x \in 1 .. k \/ x \in Range(live)
    BY <1>2, <1>3, <1>4, SMTT(30) DEF Range
  <2>2. \A x \in 1 .. k : x + n \in n + 1 .. n + k /\ x + n \in DOMAIN all /\ all[x + n] = x
    BY <1>2, SMTT(30)
  <2>3. \A x \in 1 .. k : x \in Range(all)
    BY <2>2 DEF Range
  <2>4. \A x \in Range(live) : x \in Range(all)
    <3>1. \A i \in DOMAIN live : i \in DOMAIN all /\ all[i] = live[i]
      BY <1>2, <1>3
    <3>2. QED
      BY <3>1 DEF Range
  <2>5. QED
    BY <2>1, <2>3, <2>4
<1>10. QED
  BY <1>2, <1>8, <1>9
\* The buffered text is written to the screen.
LEMMA BufferedStep == ASSUME ShellInv, NEW m \in ShowNo, ReceiveBuffered(m) PROVE ShellInv'
<1> PICK h : h = Head(inbox)
  OBVIOUS
<1> PICK one : one = mounts[m]
  OBVIOUS
<1>1. /\ inbox # <<>> /\ inbox' = Tail(inbox) /\ h.of = m /\ h.type = "buffered" /\ h.type \in Answers
      /\ UNCHANGED <<tabVars, mongosh, written, pumping, stopping>>
  BY MessageTaken DEF ReceiveBuffered, Answers
<1>2. /\ one.phase = "waiting" /\ one \in MountRecord /\ h \in ShellMessage
      /\ \E i \in DOMAIN inbox : inbox[i] = h
  BY <1>1, TakenAt, ShellTypes
<1>3. h.body \in Seq(Nat)
  BY <1>1, <1>2 DEF ShellMessage
<1>4. PICK r \in MountRecord :
         /\ mounts' = [mounts EXCEPT ![m] = r] /\ r.session = one.session /\ r.phase \in {"waiting", "ready"}
         /\ Aborted(m) => r = one
         /\ ~Aborted(m) => /\ r.phase = "ready" /\ r.screen = one.screen \o h.body /\ r.live = one.live
                           /\ r.listening = one.listening
  <2>1. CASE Aborted(m)
    <3>1. mounts' = mounts
      BY <2>1 DEF ReceiveBuffered
    <3>2. mounts' = [mounts EXCEPT ![m] = mounts[m]]
      BY <3>1 DEF ShellInv, ShellTyped
    <3>3. QED
      BY <1>2, <2>1, <3>2
  <2>2. CASE ~Aborted(m)
    <3>1. PICK r : r = [one EXCEPT !.phase = "ready", !.screen = one.screen \o h.body]
      OBVIOUS
    <3>2. one.screen \in Seq(Nat)
      BY <1>2 DEF MountRecord
    <3>3. one.screen \o h.body \in Seq(Nat)
      BY <1>3, <3>2
    <3>4. /\ r \in MountRecord /\ r.session = one.session /\ r.phase = "ready"
          /\ r.screen = one.screen \o h.body /\ r.live = one.live /\ r.listening = one.listening
      BY <1>2, <3>1, <3>3 DEF MountRecord
    <3>5. mounts' = [mounts EXCEPT ![m].phase = "ready", ![m].screen = mounts[m].screen \o h.body]
      BY <2>2 DEF ReceiveBuffered
    <3>6. mounts' = [mounts EXCEPT ![m] = r]
      BY <3>1, <3>5
    <3>7. QED
      BY <2>2, <3>4, <3>6
  <2>3. QED
    BY <2>1, <2>2
<1>5. AskingIsBlank'
  BY <1>1, <1>2, <1>4, BlankTaken DEF tabVars
<1>6. mongosh[m].streaming => m < shows \/ (r.session = m /\ r.phase # "attach")
  BY <1>2, <1>4 DEF ShellInv, NothingStreams
<1>7. ASSUME onDisplay, m = shows, one.session = m, ~Aborted(m) PROVE OwnShell'
  <2>1. PICK k \in Nat : Shown(m, k) /\ (mongosh[m].streaming \/ ~Known(m))
    BY <1>2, <1>7 DEF ShellInv, OwnShell, Known
  <2>2. /\ Streamed(m, k, one.live, inbox, written[m], pumping[m]) /\ Joining(m, k, one, inbox)
        /\ Alive(m) => one.listening /\ NothingIsLost(m, k, one.live, inbox, written[m], pumping[m])
    BY <2>1 DEF Shown
  <2>3. one.screen = one.live /\ h.body = Counted(k) /\ one.live \in Seq(Nat)
    BY <1>1, <1>2, <2>2 DEF Joining, MountRecord
  <2>4. ~IsOutput(h, m)
    BY <1>1 DEF IsOutput
  <2>5. /\ Streamed(m, k, one.live, inbox', written[m], pumping[m])
        /\ Alive(m) => NothingIsLost(m, k, one.live, inbox', written[m], pumping[m])
    BY <1>1, <2>2, <2>3, <2>4, OtherTaken, ShellTypes
  <2>6. /\ IsInjective(r.screen) /\ Range(r.screen) = 1 .. k \cup Range(r.live)
    <3>1. \A i \in DOMAIN one.live : k < one.live[i]
      BY <2>2 DEF Streamed
    <3>2. \A i, j \in DOMAIN one.live : i < j => one.live[i] < one.live[j]
      BY <2>2 DEF Streamed
    <3>3. IsInjective(one.live \o h.body) /\ Range(one.live \o h.body) = 1 .. k \cup Range(one.live)
      BY <2>3, <3>1, <3>2, ScreenJoined
    <3>4. QED
      BY <1>4, <1>7, <2>3, <3>3
  <2>7. Joining(m, k, r, inbox')
    BY <1>4, <1>7, <2>6 DEF Joining
  <2>8. mounts'[m] = r
    BY <1>4 DEF ShellInv, ShellTyped
  <2>9. Shown(m, k)'
    <3>1. Alive(m)' = Alive(m)
      BY <1>1 DEF Alive
    <3>2. /\ Streamed(m, k, r.live, inbox', written'[m], pumping'[m]) /\ Joining(m, k, r, inbox')
          /\ Alive(m)' => r.listening /\ NothingIsLost(m, k, r.live, inbox', written'[m], pumping'[m])
      BY <1>1, <1>4, <1>7, <2>2, <2>5, <2>7, <3>1
    <3>3. QED
      BY <2>8, <3>2 DEF Shown, Streamed, NothingIsLost, Joining, Alive
  <2>10. QED
    BY <1>1, <1>7, <2>1, <2>9 DEF OwnShell, Known, tabVars
<1>8. onDisplay /\ m = shows => r = mounts[m] \/ r.session # m \/ OwnShell'
  BY <1>4, <1>7
<1>9. QED
  BY <1>1, <1>4, <1>5, <1>6, <1>8, Taken

\* What a step keeps that changes only what the terminals show, and loses messages.
LEMMA OnlyTerminals ==
    ASSUME ShellInv, UNCHANGED <<shows, mongosh, written, pumping>>, inbox' \in Seq(ShellMessage),
           \A i \in DOMAIN inbox' : \E j \in DOMAIN inbox : inbox[j] = inbox'[i],
           \A i, j \in DOMAIN inbox' :
              inbox'[i].type \in Answers /\ inbox'[j].type \in Answers /\ inbox'[i].of = inbox'[j].of => i = j,
           mounts' \in [ShowNo -> MountRecord],
           \A n \in ShowNo :
              /\ mounts'[n].phase = mounts[n].phase /\ mounts'[n].session = mounts[n].session
              /\ Asks(n, inbox) =>
                    mounts'[n].screen = <<>> /\ mounts'[n].live = <<>> /\ ~mounts'[n].listening
    PROVE  NothingAhead' /\ OneAnswer' /\ AskingIsBlank' /\ NothingStreams' /\ ExitIsOfTheDead'
<1>1. NothingAhead'
  BY DEF ShellInv, NothingAhead
<1>2. OneAnswer'
  <2>1. ASSUME NEW i \in DOMAIN inbox', inbox'[i].type \in Answers
        PROVE  mounts'[inbox'[i].of].phase = "waiting"
    <3>1. PICK j \in DOMAIN inbox : inbox[j] = inbox'[i]
      OBVIOUS
    <3>2. inbox'[i].of \in ShowNo /\ mounts[inbox'[i].of].phase = "waiting"
      BY <2>1, <3>1, ShellTypes DEF ShellInv, OneAnswer
    <3>3. QED
      BY <3>2
  <2>2. QED
    BY <2>1 DEF OneAnswer
<1>3. \A n \in ShowNo : (Asks(n, inbox)' => Asks(n, inbox)) /\ (HasNotAsked(n, inbox)' => HasNotAsked(n, inbox))
  BY DEF Asks, HasNotAsked
<1>4. ASSUME NEW n \in ShowNo
      PROVE  /\ Asks(n, inbox)' => /\ mounts'[n].screen = <<>> /\ mounts'[n].live = <<>>
                                   /\ ~mounts'[n].listening /\ mounts'[n].session # n
             /\ HasNotAsked(n, inbox)' => mongosh'[n].state = "none"
             /\ mounts'[n].phase \in {"ping", "attach"} => mounts'[n].session # None
             /\ \A i \in DOMAIN inbox' :
                  inbox'[i].of = n /\ inbox'[i].type = "pong" => mounts'[n].session # None
  BY <1>3 DEF ShellInv, AskingIsBlank
<1>5. AskingIsBlank'
  BY <1>4 DEF AskingIsBlank
<1>6. \A s \in ShowNo : mongosh[s].streaming =>
              s < shows \/ (mounts'[s].session = s /\ mounts'[s].phase # "attach")
  BY DEF ShellInv, NothingStreams
<1>7. QED
  BY <1>1, <1>2, <1>5, <1>6, StreamsKept
\* What a sequence shows after one more element.
LEMMA RangeGrows ==
    ASSUME NEW q \in Seq(Nat), NEW b \in Nat
    PROVE  Range(Append(q, b)) = Range(q) \cup {b}
<1> PICK grown : grown = Append(q, b)
  OBVIOUS
<1>1. /\ \A i \in DOMAIN grown : (i \in DOMAIN q /\ grown[i] = q[i]) \/ grown[i] = b
      /\ \A i \in DOMAIN q : i \in DOMAIN grown /\ grown[i] = q[i]
      /\ \E i \in DOMAIN grown : grown[i] = b
  BY Grown
<1>2. QED
  BY <1>1 DEF Range

\* A piece of output reaches the terminal on display, if it listens to the session.
LEMMA OutputStep == ASSUME ShellInv, NEW s \in ShowNo, ReceiveOutput(s) PROVE ShellInv'
<1> PICK h : h = Head(inbox)
  OBVIOUS
<1> PICK b : b = h.body
  OBVIOUS
<1>1. /\ inbox # <<>> /\ inbox' = Tail(inbox) /\ h.of = s /\ h.type = "output" /\ h.type \notin Answers
      /\ UNCHANGED <<tabVars, mongosh, written, pumping, stopping>>
  <2>1. TakeMessage(Message("output", s, Head(inbox).body))
    BY DEF ReceiveOutput
  <2>2. /\ inbox # <<>> /\ inbox' = Tail(inbox) /\ Head(inbox).of = s /\ Head(inbox).type = "output"
    BY <2>1, MessageTaken
  <2>3. QED
    BY <2>2 DEF ReceiveOutput, Answers
<1>2. /\ inbox' \in Seq(ShellMessage) /\ h \in ShellMessage
      /\ \A i \in DOMAIN inbox' : \E j \in DOMAIN inbox : inbox[j] = inbox'[i]
      /\ \A x \in Range(inbox) : x = h \/ x \in Range(inbox')
      /\ \A i, j \in DOMAIN inbox' :
            inbox'[i].type \in Answers /\ inbox'[j].type \in Answers /\ inbox'[i].of = inbox'[j].of => i = j
      /\ \E i \in DOMAIN inbox : inbox[i] = h
  BY <1>1, TakenAt
<1>3. b \in Nat
  BY <1>1, <1>2 DEF ShellMessage
<1>4. ASSUME NEW n \in ShowNo
      PROVE  /\ mounts'[n] \in MountRecord
             /\ mounts'[n].phase = mounts[n].phase /\ mounts'[n].session = mounts[n].session
             /\ mounts'[n].answer = mounts[n].answer /\ mounts'[n].listening = mounts[n].listening
             /\ IF mounts[n].listening /\ mounts[n].session = s /\ ~Aborted(n)
                THEN /\ mounts'[n].screen = Append(mounts[n].screen, b)
                     /\ mounts'[n].live = Append(mounts[n].live, b)
                ELSE mounts'[n] = mounts[n]
  <2>1. CASE mounts[n].listening /\ mounts[n].session = s /\ ~Aborted(n)
    <3>1. PICK r : r = [mounts[n] EXCEPT !.screen = Append(mounts[n].screen, b), !.live = Append(mounts[n].live, b)]
      OBVIOUS
    <3>2. mounts'[n] = r
      BY <2>1, <3>1 DEF ReceiveOutput
    <3>3. Append(mounts[n].screen, b) \in Seq(Nat) /\ Append(mounts[n].live, b) \in Seq(Nat)
      BY <1>3, ShellTypes DEF MountRecord
    <3>4. /\ r \in MountRecord /\ r.phase = mounts[n].phase /\ r.session = mounts[n].session
          /\ r.answer = mounts[n].answer /\ r.listening = mounts[n].listening
          /\ r.screen = Append(mounts[n].screen, b) /\ r.live = Append(mounts[n].live, b)
      BY <3>1, <3>3, ShellTypes, ZenonT(60) DEF MountRecord
    <3>5. QED
      BY <2>1, <3>2, <3>4
  <2>2. CASE ~(mounts[n].listening /\ mounts[n].session = s /\ ~Aborted(n))
    <3>1. mounts'[n] = mounts[n]
      BY <2>2 DEF ReceiveOutput
    <3>2. QED
      BY <2>2, <3>1, ShellTypes
  <2>3. QED
    BY <2>1, <2>2
<1>5. mounts' \in [ShowNo -> MountRecord]
  <2>1. mounts' = [n \in ShowNo |-> mounts'[n]]
    BY DEF ReceiveOutput
  <2>2. QED
    BY <1>4, <2>1
<1>6. ShellTyped'
  BY <1>1, <1>2, <1>5 DEF ShellInv, ShellTyped, tabVars
<1>7. NothingAhead' /\ OneAnswer' /\ AskingIsBlank' /\ NothingStreams' /\ ExitIsOfTheDead'
  <2>1. \A n \in ShowNo : Asks(n, inbox) =>
           mounts'[n].screen = <<>> /\ mounts'[n].live = <<>> /\ ~mounts'[n].listening
    BY <1>4 DEF ShellInv, AskingIsBlank
  <2>2. QED
    BY <1>1, <1>2, <1>4, <1>5, <2>1, OnlyTerminals DEF tabVars
<1>8. OwnShell'
  <2>1. CASE onDisplay /\ mounts[shows].session = shows /\ s = shows /\ mounts[s].listening
    <3>1. PICK one : one = mounts[s]
      OBVIOUS
    <3>2. PICK now : now = mounts'[s]
      OBVIOUS
    <3>3. IsOutput(h, s)
      BY <1>1 DEF IsOutput
    <3>4. one.phase # "attach"
      <4>1. mongosh[s].streaming
        BY <1>1, <1>2 DEF ShellInv, NothingStreams
      <4>2. QED
        BY <2>1, <3>1, <4>1, ShellTypes DEF ShellInv, NothingStreams
    <3>5. PICK k \in Nat : Shown(s, k) /\ (mongosh[s].streaming \/ ~Known(s))
      BY <2>1, <3>1, <3>4 DEF ShellInv, OwnShell, Known
    <3>6. /\ Streamed(s, k, one.live, inbox, written[s], pumping[s]) /\ Joining(s, k, one, inbox)
          /\ Alive(s) => one.listening /\ NothingIsLost(s, k, one.live, inbox, written[s], pumping[s])
      BY <3>1, <3>5 DEF Shown
    <3>7. one.live \in Seq(Nat) /\ one.screen \in Seq(Nat)
      BY <3>1, ShellTypes DEF MountRecord
    <3>8. /\ now.phase = one.phase /\ now.answer = one.answer /\ now.listening = one.listening
          /\ now.session = one.session
          /\ now.screen = Append(one.screen, b) /\ now.live = Append(one.live, b)
      BY <1>4, <2>1, <3>1, <3>2 DEF Aborted
    <3>9. /\ Streamed(s, k, now.live, inbox', written[s], pumping[s])
          /\ Alive(s) => NothingIsLost(s, k, now.live, inbox', written[s], pumping[s])
          /\ k < b /\ \A l \in DOMAIN one.live : one.live[l] < b
      <4>1. PICK w \in Nat, p \in Nat : w = written[s] /\ p = pumping[s]
        BY ShellTypes
      <4>2. Streamed(s, k, one.live, inbox, w, p) /\ (Alive(s) => NothingIsLost(s, k, one.live, inbox, w, p))
        BY <3>6, <4>1
      <4>3. inbox \in Seq(ShellMessage) /\ inbox # <<>> /\ IsOutput(Head(inbox), s) /\ b = Head(inbox).body
        BY <1>1, <3>3, ShellTypes
      <4>4. /\ Streamed(s, k, Append(one.live, b), Tail(inbox), w, p)
            /\ NothingIsLost(s, k, one.live, inbox, w, p) => NothingIsLost(s, k, Append(one.live, b), Tail(inbox), w, p)
            /\ k < b /\ \A l \in DOMAIN one.live : one.live[l] < b
        BY <1>3, <3>7, <4>2, <4>3, PieceHeard
      <4>5. QED
        BY <1>1, <3>8, <4>1, <4>2, <4>4
    <3>10. Joining(s, k, now, inbox')
      <4>1. CASE one.phase = "attached" /\ one.answer = Counted(k) /\ one.screen = one.live
        BY <3>8, <4>1 DEF Joining
      <4>2. CASE /\ one.phase = "waiting" /\ one.screen = one.live
                 /\ \A i \in DOMAIN inbox : inbox[i].type \in Answers /\ inbox[i].of = s =>
                       inbox[i].type = "buffered" /\ inbox[i].body = Counted(k)
        <5>1. \A i \in DOMAIN inbox' : inbox'[i].type \in Answers /\ inbox'[i].of = s =>
                       inbox'[i].type = "buffered" /\ inbox'[i].body = Counted(k)
          BY <1>2, <4>2
        <5>2. QED
          BY <3>8, <4>2, <5>1 DEF Joining
      <4>3. CASE /\ one.phase = "ready" /\ IsInjective(one.screen)
                 /\ Range(one.screen) = 1 .. k \cup Range(one.live)
        <5>1. \A x \in Range(one.live) : x # b
          <6>1. \A l \in DOMAIN one.live : one.live[l] \in Nat
            BY <3>7
          <6>2. QED
            BY <1>3, <3>9, <6>1 DEF Range
        <5>2. b \notin 1 .. k
          BY <1>3, <3>9
        <5>3. b \notin Range(one.screen)
          BY <4>3, <5>1, <5>2
        <5>4. IsInjective(now.screen)
          <6>1. \A i \in DOMAIN one.screen : one.screen[i] # b
            BY <5>3 DEF Range
          <6>2. /\ \A i \in DOMAIN now.screen :
                      \/ i \in DOMAIN one.screen /\ now.screen[i] = one.screen[i]
                      \/ i = Len(one.screen) + 1 /\ now.screen[i] = b
            BY <1>3, <3>7, <3>8, Grown
          <6>3. \A i, j \in DOMAIN one.screen : one.screen[i] = one.screen[j] => i = j
            BY <4>3 DEF IsInjective
          <6>4. QED
            BY <6>1, <6>2, <6>3 DEF IsInjective
        <5>5. Range(now.screen) = Range(one.screen) \cup {b}
          BY <1>3, <3>7, <3>8, RangeGrows
        <5>6. Range(now.live) = Range(one.live) \cup {b}
          BY <1>3, <3>7, <3>8, RangeGrows
        <5>7. QED
          BY <3>8, <4>3, <5>4, <5>5, <5>6 DEF Joining
      <4>4. QED
        BY <3>6, <4>1, <4>2, <4>3 DEF Joining
    <3>11. Shown(s, k)'
      <4>1. Alive(s)' = Alive(s)
        BY <1>1 DEF Alive
      <4>2. /\ Streamed(s, k, now.live, inbox', written'[s], pumping'[s]) /\ Joining(s, k, now, inbox')
            /\ Alive(s)' => now.listening /\ NothingIsLost(s, k, now.live, inbox', written'[s], pumping'[s])
        BY <1>1, <3>6, <3>8, <3>9, <3>10, <4>1
      <4>3. QED
        BY <3>2, <4>2 DEF Shown, Streamed, NothingIsLost, Joining, Alive
    <3>12. QED
      BY <1>1, <2>1, <3>5, <3>11 DEF OwnShell, Known, tabVars
  <2>2. CASE onDisplay /\ mounts[shows].session # shows
    BY <1>1, <1>4, <2>2, AskingOwnsNothing, ShellTypes DEF tabVars
  <2>3. CASE onDisplay /\ mounts[shows].session = shows /\ ~(s = shows /\ mounts[s].listening)
    <3>1. mounts'[shows] = mounts[shows]
      BY <1>4, <2>3, ShellTypes
    <3>2. Alive(shows) => ~IsOutput(h, shows)
      <4>1. Alive(shows) => mounts[shows].listening
        BY <2>3 DEF ShellInv, OwnShell, Shown
      <4>2. QED
        BY <1>1, <2>3, <4>1 DEF IsOutput
    <3>3. QED
      BY <1>1, <3>1, <3>2, OwnTaken DEF tabVars
  <2>4. CASE ~onDisplay
    BY <1>1, <2>4 DEF OwnShell, tabVars
  <2>5. QED
    BY <2>1, <2>2, <2>3, <2>4
<1>9. OnlyReplacedIsOrphan'
  <2>1. \A x \in Range(inbox) : x.type = "started" => x \in Range(inbox')
    BY <1>1, <1>2
  <2>2. QED
    BY <1>1, <2>1, OrphansKept DEF tabVars, Alive
<1>10. QED
  BY <1>6, <1>7, <1>8, <1>9 DEF ShellInv

\* The mounts of a session that ended stop listening.
LEMMA ExitStep == ASSUME ShellInv, NEW s \in ShowNo, ReceiveExit(s) PROVE ShellInv'
<1> PICK h : h = Head(inbox)
  OBVIOUS
<1>1. /\ inbox # <<>> /\ inbox' = Tail(inbox) /\ h.of = s /\ h.type = "exit" /\ h.type \notin Answers
      /\ UNCHANGED <<tabVars, mongosh, written, pumping, stopping>>
  BY MessageTaken DEF ReceiveExit, Answers
<1>2. /\ inbox' \in Seq(ShellMessage) /\ h \in ShellMessage
      /\ \A i \in DOMAIN inbox' : \E j \in DOMAIN inbox : inbox[j] = inbox'[i]
      /\ \A x \in Range(inbox) : x = h \/ x \in Range(inbox')
      /\ \A i, j \in DOMAIN inbox' :
            inbox'[i].type \in Answers /\ inbox'[j].type \in Answers /\ inbox'[i].of = inbox'[j].of => i = j
      /\ \E i \in DOMAIN inbox : inbox[i] = h
  BY <1>1, TakenAt
<1>3. ~Alive(s)
  BY <1>1, <1>2 DEF ShellInv, ExitIsOfTheDead, Alive
<1>4. ASSUME NEW n \in ShowNo
      PROVE  /\ mounts'[n] \in MountRecord
             /\ mounts'[n].phase = mounts[n].phase /\ mounts'[n].session = mounts[n].session
             /\ mounts'[n].answer = mounts[n].answer /\ mounts'[n].screen = mounts[n].screen
             /\ mounts'[n].live = mounts[n].live /\ (mounts'[n].listening => mounts[n].listening)
             /\ mounts[n].session # s => mounts'[n] = mounts[n]
  <2>1. CASE mounts[n].session = s
    <3>1. mounts'[n] = [mounts[n] EXCEPT !.listening = FALSE]
      BY <2>1 DEF ReceiveExit
    <3>2. QED
      BY <2>1, <3>1, ShellTypes DEF MountRecord
  <2>2. CASE mounts[n].session # s
    <3>1. mounts'[n] = mounts[n]
      BY <2>2 DEF ReceiveExit
    <3>2. QED
      BY <2>2, <3>1, ShellTypes
  <2>3. QED
    BY <2>1, <2>2
<1>5. mounts' \in [ShowNo -> MountRecord]
  <2>1. mounts' = [n \in ShowNo |-> mounts'[n]]
    BY DEF ReceiveExit
  <2>2. QED
    BY <1>4, <2>1
<1>6. ShellTyped'
  BY <1>1, <1>2, <1>5 DEF ShellInv, ShellTyped, tabVars
<1>7. NothingAhead' /\ OneAnswer' /\ AskingIsBlank' /\ NothingStreams' /\ ExitIsOfTheDead'
  <2>1. \A n \in ShowNo : Asks(n, inbox) =>
           mounts'[n].screen = <<>> /\ mounts'[n].live = <<>> /\ ~mounts'[n].listening
    BY <1>4 DEF ShellInv, AskingIsBlank
  <2>2. QED
    BY <1>1, <1>2, <1>4, <1>5, <2>1, OnlyTerminals DEF tabVars
<1>8. OwnShell'
  <2>1. CASE onDisplay /\ mounts[shows].session = shows /\ s = shows
    <3>1. PICK one : one = mounts[s]
      OBVIOUS
    <3>2. PICK now : now = mounts'[s]
      OBVIOUS
    <3>3. /\ now.phase = one.phase /\ now.answer = one.answer /\ now.session = one.session
          /\ now.screen = one.screen /\ now.live = one.live
      BY <1>4, <3>1, <3>2
    <3>4. CASE one.phase = "attach" /\ one.screen = <<>> /\ one.live = <<>>
      BY <1>1, <1>3, <2>1, <3>2, <3>3, <3>4 DEF OwnShell, tabVars, Alive
    <3>5. ASSUME NEW k \in Nat, Shown(s, k), mongosh[s].streaming \/ ~Known(s) PROVE OwnShell'
      <4>1. Streamed(s, k, one.live, inbox, written[s], pumping[s]) /\ Joining(s, k, one, inbox)
        BY <3>1, <3>5 DEF Shown
      <4>2. one.live \in Seq(Nat)
        BY <3>1, ShellTypes DEF MountRecord
      <4>3. Streamed(s, k, now.live, inbox', written[s], pumping[s])
        BY <1>1, <3>3, <4>1, <4>2, OtherTaken, ShellTypes
      <4>4. Joining(s, k, one, inbox')
        BY <1>2, <4>1, OtherMessages
      <4>5. Joining(s, k, now, inbox')
        BY <3>3, <4>4 DEF Joining
      <4>6. Shown(s, k)'
        <5>1. ~Alive(s)'
          BY <1>1, <1>3 DEF Alive
        <5>2. Streamed(s, k, now.live, inbox', written'[s], pumping'[s]) /\ Joining(s, k, now, inbox')
          BY <1>1, <4>3, <4>5
        <5>3. QED
          BY <3>2, <5>1, <5>2 DEF Shown, Streamed, NothingIsLost, Joining, Alive
      <4>7. QED
        BY <1>1, <2>1, <3>5, <4>6 DEF OwnShell, Known, tabVars
    <3>6. QED
      BY <2>1, <3>1, <3>4, <3>5 DEF ShellInv, OwnShell, Known
  <2>2. CASE onDisplay /\ mounts[shows].session # shows
    BY <1>1, <1>4, <2>2, AskingOwnsNothing, ShellTypes DEF tabVars
  <2>3. CASE onDisplay /\ mounts[shows].session = shows /\ s # shows
    <3>1. mounts'[shows] = mounts[shows]
      BY <1>4, <2>3, ShellTypes
    <3>2. ~IsOutput(h, shows)
      BY <1>1 DEF IsOutput
    <3>3. QED
      BY <1>1, <3>1, <3>2, OwnTaken DEF tabVars
  <2>4. CASE ~onDisplay
    BY <1>1, <2>4 DEF OwnShell, tabVars
  <2>5. QED
    BY <2>1, <2>2, <2>3, <2>4
<1>9. OnlyReplacedIsOrphan'
  <2>1. \A x \in Range(inbox) : x.type = "started" => x \in Range(inbox')
    BY <1>1, <1>2
  <2>2. QED
    BY <1>1, <2>1, OrphansKept DEF tabVars, Alive
<1>10. QED
  BY <1>6, <1>7, <1>8, <1>9 DEF ShellInv
-----------------------------------------------------------------------------
(* The tab.                                                                 *)

\* The tab is shown.
LEMMA ShowStep == ASSUME ShellInv, ShowShell PROVE ShellInv'
<1> PICK m : m = shows + 1
  OBVIOUS
<1> PICK r : r = [mounts[m] EXCEPT !.session = tabSession, !.phase = IF tabSession = None THEN "start" ELSE "ping"]
  OBVIOUS
<1>1. /\ tabOpen /\ shows' = m /\ onDisplay' = TRUE
      /\ mounts' = [mounts EXCEPT ![shows + 1].session = tabSession,
                                  ![shows + 1].phase = IF tabSession = None THEN "start" ELSE "ping"]
      /\ UNCHANGED <<tabOpen, tabSession, replaced, unheard, mongosh, written, pumping, inbox, stopping>>
  BY DEF ShowShell
<1>2. m \in ShowNo /\ m \in Nat /\ shows \in Nat /\ shows < m /\ m \in 0 .. MaxShows
  BY ShellAssumption DEF ShellInv, ShellTyped, ShowShell, ShowNo
<1>3. /\ mounts[m].phase = "none" /\ mounts[m].session = None
      /\ mounts[m].screen = <<>> /\ mounts[m].live = <<>> /\ ~mounts[m].listening /\ mongosh[m].state = "none"
  <2>1. mounts[m].phase = "none" /\ mounts[m].session = None
    BY <1>2 DEF ShellInv, NothingAhead
  <2>2. QED
    BY <1>2, <2>1 DEF ShellInv, AskingIsBlank, Asks, HasNotAsked
<1>4. /\ tabSession \in ShowNo \cup {None} /\ (tabSession # None => tabSession <= shows /\ tabSession < m)
      /\ tabSession # m
  BY <1>2, ShellAssumption DEF ShellInv, ShellTyped, ShowNo
<1>5. /\ r \in MountRecord /\ r.session = tabSession
      /\ r.phase = IF tabSession = None THEN "start" ELSE "ping"
      /\ r.screen = <<>> /\ r.live = <<>> /\ ~r.listening
  <2>1. PICK p \in {"start", "ping"} : p = IF tabSession = None THEN "start" ELSE "ping"
    OBVIOUS
  <2>2. r = [mounts[m] EXCEPT !.session = tabSession, !.phase = p]
    BY <2>1
  <2>3. /\ r \in MountRecord /\ r.session = tabSession /\ r.phase = p
        /\ r.screen = mounts[m].screen /\ r.live = mounts[m].live /\ r.listening = mounts[m].listening
    BY <1>2, <1>4, <2>2, ShellTypes DEF MountRecord
  <2>4. QED
    BY <1>3, <2>1, <2>3
<1>6. /\ mounts' \in [ShowNo -> MountRecord] /\ mounts'[m] = r
      /\ \A n \in ShowNo \ {m} : mounts'[n] = mounts[n]
  <2>1. mounts' = [mounts EXCEPT ![m] = r]
    BY <1>1
  <2>2. QED
    BY <1>2, <1>5, <2>1 DEF ShellInv, ShellTyped
<1>7. ShellTyped'
  <2>1. tabSession \in 1 .. m \cup {None}
    BY <1>2 DEF ShellInv, ShellTyped
  <2>2. QED
    BY <1>1, <1>2, <1>6, <2>1 DEF ShellInv, ShellTyped
<1>8. \A i \in DOMAIN inbox : inbox[i].of <= shows /\ inbox[i].of \in ShowNo \ {m} /\ inbox[i].of <= m
  BY <1>2, ShellTypes DEF ShellInv, NothingAhead
<1>9. NothingAhead'
  <2>1. ASSUME NEW n \in ShowNo
        PROVE  /\ n > m => mounts'[n].phase = "none" /\ mounts'[n].session = None
               /\ mounts'[n].session # None => mounts'[n].session <= n
    <3>1. CASE n = m
      <4>1. ~(m > m) /\ mounts'[m].session = tabSession
        BY <1>2, <1>5, <1>6
      <4>2. tabSession # None => tabSession <= m
        BY <1>2, <1>4, ShellTypes
      <4>3. QED
        BY <3>1, <4>1, <4>2
    <3>2. CASE n # m
      BY <1>2, <1>6, <3>2, ShellTypes DEF ShellInv, NothingAhead
    <3>3. QED
      BY <3>1, <3>2
  <2>2. QED
    BY <1>1, <1>8, <2>1 DEF NothingAhead
<1>10. OneAnswer'
  BY <1>1, <1>6, <1>8 DEF ShellInv, OneAnswer
<1>11. AskingIsBlank'
  <2>1. ASSUME NEW n \in ShowNo
        PROVE  /\ Asks(n, inbox)' => /\ mounts'[n].screen = <<>> /\ mounts'[n].live = <<>>
                                     /\ ~mounts'[n].listening /\ mounts'[n].session # n
               /\ HasNotAsked(n, inbox)' => mongosh'[n].state = "none"
               /\ mounts'[n].phase \in {"ping", "attach"} => mounts'[n].session # None
               /\ \A i \in DOMAIN inbox' :
                    inbox'[i].of = n /\ inbox'[i].type = "pong" => mounts'[n].session # None
    <3>1. CASE n = m
      BY <1>1, <1>3, <1>4, <1>5, <1>6, <1>8, <3>1
    <3>2. CASE n # m
      <4>1. mounts'[n] = mounts[n]
        BY <1>6, <3>2
      <4>2. QED
        BY <1>1, <4>1 DEF ShellInv, AskingIsBlank, Asks, HasNotAsked
    <3>3. QED
      BY <3>1, <3>2
  <2>2. QED
    BY <2>1 DEF AskingIsBlank
<1>12. NothingStreams'
  <2>1. ASSUME NEW s \in ShowNo, mongosh[s].streaming PROVE s < m
    BY <1>2, <1>3, <2>1, ShellTypes DEF ShellInv, NothingStreams, NothingAhead
  <2>2. ASSUME NEW s \in ShowNo
        PROVE  /\ ~mongosh[s].streaming =>
                    /\ mongosh[s].buffer = Counted(written[s]) /\ pumping[s] = 0
                    /\ \A i \in DOMAIN inbox : ~(inbox[i].type = "output" /\ inbox[i].of = s)
               /\ pumping[s] # 0 => pumping[s] = written[s]
    BY DEF ShellInv, NothingStreams
  <2>3. QED
    BY <1>1, <2>1, <2>2 DEF NothingStreams
<1>13. ExitIsOfTheDead'
  BY <1>1 DEF ShellInv, ExitIsOfTheDead
<1>14. OwnShell'
  BY <1>1, <1>4, <1>5, <1>6 DEF OwnShell
<1>15. OnlyReplacedIsOrphan'
  BY <1>1, OrphansKept DEF Alive
<1>16. QED
  BY <1>7, <1>9, <1>10, <1>11, <1>12, <1>13, <1>14, <1>15 DEF ShellInv

\* A mount whose terminal is cleared.
LEMMA Cleared ==
    ASSUME NEW one \in MountRecord, NEW r, r = [one EXCEPT !.listening = FALSE, !.screen = <<>>, !.live = <<>>]
    PROVE  /\ r \in MountRecord /\ r.phase = one.phase /\ r.session = one.session
           /\ r.screen = <<>> /\ r.live = <<>> /\ ~r.listening
<1>1. <<>> \in Seq(Nat)
  OBVIOUS
<1>2. QED
  BY <1>1 DEF MountRecord

\* The display ends: terminals are cleared, and a reload loses the queue.
LEMMA DisplayEnds ==
    ASSUME ShellInv, UNCHANGED <<tabSession, shows, replaced, mongosh, written, pumping>>,
           tabOpen' \in BOOLEAN, ~onDisplay', onDisplay' \in BOOLEAN, stopping' \subseteq ShowNo,
           \/ inbox' = inbox
           \/ inbox' = <<>> /\ \A s \in ShowNo : Message("started", s, s) \in Range(inbox) => s \in unheard',
           \A n \in ShowNo : mounts'[n] = mounts[n]
              \/ mounts'[n] = [mounts[n] EXCEPT !.listening = FALSE, !.screen = <<>>, !.live = <<>>],
           mounts' = [n \in ShowNo |-> mounts'[n]],
           stopping \subseteq stopping', unheard \subseteq unheard',
           tabOpen' = tabOpen \/ tabSession = None \/ tabSession \in stopping'
    PROVE  ShellInv'
<1>1. ASSUME NEW n \in ShowNo
      PROVE  /\ mounts'[n] \in MountRecord
             /\ mounts'[n].phase = mounts[n].phase /\ mounts'[n].session = mounts[n].session
             /\ Asks(n, inbox) => mounts'[n].screen = <<>> /\ mounts'[n].live = <<>> /\ ~mounts'[n].listening
  <2>1. CASE mounts'[n] = mounts[n]
    BY <2>1, ShellTypes DEF ShellInv, AskingIsBlank
  <2>2. CASE mounts'[n] = [mounts[n] EXCEPT !.listening = FALSE, !.screen = <<>>, !.live = <<>>]
    BY <2>2, Cleared, ShellTypes
  <2>3. QED
    BY <2>1, <2>2
<1>2. mounts' \in [ShowNo -> MountRecord]
  BY <1>1
<1>3. /\ inbox' \in Seq(ShellMessage)
      /\ \A i \in DOMAIN inbox' : \E j \in DOMAIN inbox : inbox[j] = inbox'[i]
      /\ \A i, j \in DOMAIN inbox' :
            inbox'[i].type \in Answers /\ inbox'[j].type \in Answers /\ inbox'[i].of = inbox'[j].of => i = j
  <2>1. CASE inbox' = inbox
    BY <2>1, ShellTypes DEF ShellInv, OneAnswer
  <2>2. CASE inbox' = <<>>
    BY <2>2, Nothing
  <2>3. QED
    BY <2>1, <2>2
<1>4. ShellTyped'
  BY <1>2, <1>3 DEF ShellInv, ShellTyped
<1>5. NothingAhead' /\ OneAnswer' /\ AskingIsBlank' /\ NothingStreams' /\ ExitIsOfTheDead'
  BY <1>1, <1>2, <1>3, OnlyTerminals
<1>6. OwnShell'
  BY DEF OwnShell
<1>7. OnlyReplacedIsOrphan'
  <2>1. SUFFICES ASSUME NEW s \in ShowNo, Alive(s)'
                 PROVE  Referenced(s)' \/ s \in unheard' \cup replaced'
    BY DEF OnlyReplacedIsOrphan
  <2>2. Referenced(s) \/ s \in unheard \cup replaced
    BY <2>1 DEF ShellInv, OnlyReplacedIsOrphan, Alive
  <2>3. CASE tabOpen /\ tabSession = s
    BY <2>3, ShellTypes DEF Referenced
  <2>4. CASE Message("started", s, s) \in Range(inbox)
    BY <2>4 DEF Referenced, Message
  <2>5. CASE s \in stopping \/ s \in unheard \cup replaced
    BY <2>5 DEF Referenced
  <2>6. QED
    BY <2>2, <2>3, <2>4, <2>5 DEF Referenced
<1>8. QED
  BY <1>4, <1>5, <1>6, <1>7 DEF ShellInv

\* The tab is hidden or closed, or the window is reloaded.
LEMMA TabSteps == ASSUME ShellInv, HideShell \/ CloseShellTab \/ ReloadWindow PROVE ShellInv'
<1>1. ASSUME Unmounted
      PROVE  /\ \A n \in ShowNo : mounts'[n] = mounts[n]
                    \/ mounts'[n] = [mounts[n] EXCEPT !.listening = FALSE, !.screen = <<>>, !.live = <<>>]
             /\ mounts' = [n \in ShowNo |-> mounts'[n]]
  <2>1. PICK to : to = [m \in ShowNo |->
                 IF m = shows /\ mounts[m].phase = "ready"
                 THEN [mounts[m] EXCEPT !.listening = FALSE, !.screen = <<>>, !.live = <<>>]
                 ELSE mounts[m]]
    OBVIOUS
  <2>2. mounts' = to
    BY <1>1, <2>1 DEF Unmounted
  <2>3. to = [n \in ShowNo |-> to[n]]
    BY <2>1
  <2>4. \A n \in ShowNo : to[n] = mounts[n]
                    \/ to[n] = [mounts[n] EXCEPT !.listening = FALSE, !.screen = <<>>, !.live = <<>>]
    BY <2>1
  <2>5. QED
    BY <2>2, <2>3, <2>4
<1>2. CASE HideShell
  <2>1. /\ UNCHANGED <<tabOpen, tabSession, shows, replaced, unheard, mongosh, written, pumping, inbox, stopping>>
        /\ onDisplay' = FALSE /\ Unmounted /\ tabOpen \in BOOLEAN /\ stopping \subseteq ShowNo
    BY <1>2 DEF HideShell, ShellInv, ShellTyped
  <2>2. QED
    BY <1>1, <2>1, DisplayEnds
<1>3. CASE CloseShellTab
  <2>1. /\ UNCHANGED <<tabSession, shows, replaced, unheard, mongosh, written, pumping, inbox>>
        /\ onDisplay' = FALSE /\ Unmounted /\ tabOpen' = FALSE
        /\ stopping' = IF tabSession = None THEN stopping ELSE stopping \cup {tabSession}
    BY <1>3 DEF CloseShellTab
  <2>2. stopping' \subseteq ShowNo /\ stopping \subseteq stopping' /\ (tabSession = None \/ tabSession \in stopping')
    <3>1. tabSession = None \/ tabSession \in ShowNo
      BY ShellAssumption DEF ShellInv, ShellTyped, ShowNo
    <3>2. stopping \subseteq ShowNo
      BY DEF ShellInv, ShellTyped
    <3>3. QED
      BY <2>1, <3>1, <3>2
  <2>3. QED
    BY <1>1, <2>1, <2>2, DisplayEnds
<1>4. CASE ReloadWindow
  <2>1. /\ UNCHANGED <<tabOpen, tabSession, shows, replaced, mongosh, written, pumping, stopping>>
        /\ onDisplay' = FALSE /\ inbox' = <<>> /\ tabOpen \in BOOLEAN /\ stopping \subseteq ShowNo
        /\ unheard \subseteq unheard'
        /\ \A s \in ShowNo : Message("started", s, s) \in Range(inbox) => s \in unheard'
        /\ mounts' = [m \in ShowNo |-> [mounts[m] EXCEPT !.listening = FALSE, !.screen = <<>>, !.live = <<>>]]
    BY <1>4 DEF ReloadWindow, ShellInv, ShellTyped
  <2>2. /\ mounts' = [n \in ShowNo |-> mounts'[n]]
        /\ \A n \in ShowNo :
              mounts'[n] = [mounts[n] EXCEPT !.listening = FALSE, !.screen = <<>>, !.live = <<>>]
    BY <2>1
  <2>3. QED
    BY <2>1, <2>2, DisplayEnds
<1>5. QED
  BY <1>2, <1>3, <1>4
-----------------------------------------------------------------------------
(* The results.                                                             *)

\* It holds at first.
LEMMA InitShell == ShellInit => ShellInv
<1> SUFFICES ASSUME ShellInit PROVE ShellInv
  OBVIOUS
<1>1. /\ tabOpen = TRUE /\ tabSession = None /\ shows = 0 /\ onDisplay = FALSE /\ stopping = {} /\ inbox = <<>>
      /\ mounts = [m \in ShowNo |-> NewMount] /\ mongosh = [s \in ShowNo |-> NoShell]
      /\ written = [s \in ShowNo |-> 0] /\ pumping = [s \in ShowNo |-> 0]
  BY DEF ShellInit
<1>2. <<>> \in Seq(Nat) /\ inbox \in Seq(ShellMessage) /\ DOMAIN inbox = {}
  BY <1>1, Nothing
<1>3. NewMount \in MountRecord /\ NoShell \in ShellRecord
  BY <1>2 DEF NewMount, MountRecord, NoShell, ShellRecord
<1>4. \A m \in ShowNo : /\ mounts[m] = NewMount /\ mongosh[m] = NoShell /\ written[m] = 0 /\ pumping[m] = 0
                        /\ m # None /\ m \in Nat
  BY <1>1, ShellAssumption DEF ShowNo
<1>5. ShellTyped
  <2>1. shows \in 0 .. MaxShows
    BY <1>1, ShellAssumption
  <2>2. mounts \in [ShowNo -> MountRecord] /\ mongosh \in [ShowNo -> ShellRecord]
        /\ written \in [ShowNo -> Nat] /\ pumping \in [ShowNo -> Nat]
    BY <1>1, <1>3
  <2>3. QED
    BY <1>1, <1>2, <2>1, <2>2 DEF ShellTyped
<1>6. NothingAhead /\ OneAnswer /\ ExitIsOfTheDead
  BY <1>2, <1>4 DEF NothingAhead, OneAnswer, ExitIsOfTheDead, NewMount
<1>7. AskingIsBlank
  BY <1>2, <1>4 DEF AskingIsBlank, NewMount, NoShell
<1>8. NothingStreams
  <2>1. Counted(0) = <<>>
    BY Nothing DEF Counted
  <2>2. QED
    BY <1>2, <1>4, <2>1 DEF NothingStreams, NewMount, NoShell
<1>9. OwnShell /\ OnlyReplacedIsOrphan
  BY <1>1, <1>4 DEF OwnShell, OnlyReplacedIsOrphan, NoShell, Alive
<1>10. QED
  BY <1>5, <1>6, <1>7, <1>8, <1>9 DEF ShellInv

\* Every step keeps it.
LEMMA ShellStep == ShellInv /\ [ShellNext]_shellVars => ShellInv'
<1> SUFFICES ASSUME ShellInv, [ShellNext]_shellVars PROVE ShellInv'
  OBVIOUS
<1>1. CASE ShowShell \/ HideShell \/ CloseShellTab \/ ReloadWindow
  BY <1>1, ShowStep, TabSteps
<1>2. ASSUME NEW m \in ShowNo,
             \/ PingShell(m) \/ StartMongoShell(m) \/ AttachMongoShell(m) \/ AnswerAttach(m)
             \/ ReceivePong(m, TRUE) \/ ReceivePong(m, FALSE)
             \/ ReceiveStarted(m) \/ ReceiveFailed(m) \/ ReceiveBuffered(m)
      PROVE  ShellInv'
  <2>1. CASE ReceivePong(m, TRUE) \/ ReceivePong(m, FALSE)
    BY <2>1, PongStep
  <2>2. CASE PingShell(m) \/ StartMongoShell(m) \/ AttachMongoShell(m) \/ AnswerAttach(m)
    BY <2>2, PingStep, StartStep, AttachStep, AnswerStep
  <2>3. CASE ReceiveStarted(m) \/ ReceiveFailed(m) \/ ReceiveBuffered(m)
    BY <2>3, StartedStep, FailedStep, BufferedStep
  <2>4. QED
    BY <1>2, <2>1, <2>2, <2>3
<1>3. ASSUME NEW s \in ShowNo,
             \/ PumpShell(s) \/ EmitOutput(s) \/ ShellExits(s) \/ SweepShell(s)
             \/ ReceiveOutput(s) \/ ReceiveExit(s) \/ StopMongoShell(s)
      PROVE  ShellInv'
  BY <1>3, SessionSteps, OutputStep, ExitStep
<1>4. ASSUME NEW s \in stopping, StopMongoShell(s) PROVE ShellInv'
  <2>1. s \in ShowNo
    BY DEF ShellInv, ShellTyped
  <2>2. QED
    BY <1>3, <1>4, <2>1
<1>5. CASE UNCHANGED shellVars
  <2>1. /\ UNCHANGED <<tabOpen, tabSession, shows, onDisplay, replaced, unheard, mounts, mongosh, written,
                       pumping, inbox, stopping>>
    BY <1>5 DEF shellVars, tabVars
  <2>2. ShellTyped'
    BY <2>1 DEF ShellInv, ShellTyped
  <2>3. NothingAhead' /\ OneAnswer' /\ AskingIsBlank' /\ NothingStreams' /\ ExitIsOfTheDead'
    BY <2>1 DEF ShellInv, NothingAhead, OneAnswer, AskingIsBlank, Asks, HasNotAsked, NothingStreams,
                ExitIsOfTheDead
  <2>4. OwnShell'
    BY <2>1 DEF ShellInv, OwnShell, Alive, Known, Shown, Streamed, Joining, NothingIsLost
  <2>5. OnlyReplacedIsOrphan'
    BY <2>1, OrphansKept DEF Alive
  <2>6. QED
    BY <2>2, <2>3, <2>4, <2>5 DEF ShellInv
<1>6. QED
  BY <1>1, <1>2, <1>3, <1>4, <1>5 DEF ShellNext

\* What the terminal on display shows follows from the story of its session.
LEMMA ScreenIsTrue == ShellInv => ShellOutputIsKept
<1> SUFFICES ASSUME ShellInv, onDisplay, mounts[shows].phase = "ready", mounts[shows].session = shows
             PROVE  /\ IsInjective(mounts[shows].screen)
                    /\ \A i, j \in DOMAIN mounts[shows].live :
                          i < j => mounts[shows].live[i] < mounts[shows].live[j]
                    /\ (Alive(shows) /\ pumping[shows] = 0 /\ \A e \in Range(inbox) : e.of # shows) =>
                           Range(mounts[shows].screen) = 1 .. written[shows]
  BY DEF ShellOutputIsKept
<1> PICK one : one = mounts[shows]
  OBVIOUS
<1> PICK m : m = shows
  OBVIOUS
<1>1. PICK k \in Nat : Shown(m, k)
  BY DEF ShellInv, OwnShell
<1>2. /\ Streamed(m, k, one.live, inbox, written[m], pumping[m])
      /\ IsInjective(one.screen) /\ Range(one.screen) = 1 .. k \cup Range(one.live)
      /\ Alive(m) => NothingIsLost(m, k, one.live, inbox, written[m], pumping[m])
  BY <1>1 DEF Shown, Joining
<1>3. \A i, j \in DOMAIN one.live : i < j => one.live[i] < one.live[j]
  BY <1>2 DEF Streamed
<1>4. ASSUME Alive(m), pumping[m] = 0, \A e \in Range(inbox) : e.of # m
      PROVE  Range(one.screen) = 1 .. written[m]
  <2>1. PICK w \in Nat : w = written[m]
    BY ShellTypes
  <2>2. k <= w /\ \A i \in DOMAIN one.live : k < one.live[i] /\ one.live[i] <= w /\ one.live[i] \in Nat
    <3>1. one.live \in Seq(Nat)
      BY ShellTypes DEF MountRecord
    <3>2. QED
      BY <1>2, <2>1, <3>1 DEF Streamed
  <2>3. \A i \in DOMAIN inbox : inbox[i].of # m
    BY <1>4 DEF Range
  <2>4. \A q \in k + 1 .. w : q # 0 /\ \E l \in DOMAIN one.live : one.live[l] = q
    BY <1>2, <1>4, <2>1, <2>3 DEF NothingIsLost, IsOutput
  <2>5. \A q \in k + 1 .. w : q \in Range(one.live)
    BY <2>4 DEF Range
  <2>6. \A x \in Range(one.live) : x \in 1 .. w
    BY <2>2 DEF Range
  <2>7. \A x \in 1 .. w : x \in 1 .. k \/ x \in k + 1 .. w
    OBVIOUS
  <2>8. \A x \in 1 .. k : x \in 1 .. w
    BY <2>2
  <2>9. QED
    BY <1>2, <2>1, <2>5, <2>6, <2>7, <2>8
<1>5. QED
  BY <1>2, <1>3, <1>4

-----------------------------------------------------------------------------
(* The theorems.                                                            *)

\* What the terminal and its session say of each other is so after any steps.
THEOREM ShellInvariance == ShellSpec => []ShellInv
  BY InitShell, ShellStep, PTL DEF ShellSpec

\* A terminal on display since its mongosh started shows each piece of output once,
\* before, during and after the attach, and all of them when nothing is on its way.
THEOREM OutputIsKept == ShellSpec => []ShellOutputIsKept
  BY ShellInvariance, ScreenIsTrue, PTL

\* A mongosh that nobody knows of was replaced in its tab, or a reload lost its start.
THEOREM OrphansAreReplaced == ShellSpec => []OnlyReplacedIsOrphan
<1>1. ShellInv => OnlyReplacedIsOrphan
  BY DEF ShellInv
<1>2. QED
  BY <1>1, ShellInvariance, PTL
=============================================================================
