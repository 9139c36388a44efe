---------------------------- MODULE KioskProofs ----------------------------
(***************************************************************************)
(* For any people, kiosks, clocks and number of scans: a thread waits for  *)
(* one request at a time, no scan is recorded twice, what a kiosk lets go  *)
(* of is recorded, debounced or answered as a duplicate, and the scans of  *)
(* one person take effect in their order, at once or out of a hold.        *)
(***************************************************************************)
EXTENDS KioskProperties, SequenceTheorems, WellFoundedInduction, TLAPS

Types ==
  /\ reads \in 0 .. MaxScans
  /\ scan \in [Scans -> ScanType]
  /\ tried \in [Kiosks -> Seq(Scans)]
  /\ sending \in [Kiosks -> 0 .. MaxScans]
  /\ clock \in [Kiosks -> Clocks]
  /\ net \subseteq RequestType
  /\ unknown \subseteq People /\ inside \subseteq People
  /\ log \in [Scans -> Nat]
  /\ effects \subseteq Scans /\ ignored \subseteq Scans
  /\ latest \in [People -> Nat]
  /\ open \in BOOLEAN
  /\ parked \in [Scans -> Nat]
  /\ missed \subseteq Scans /\ collided \subseteq Scans

\* The parts of OneRequest: who waits, what for, and that it is there.
PostedIsSent ==
  \A n \in Scans :
    scan[n].place = "posted" => \E r \in net : r.no = n /\ r.mode = "live" /\ r.awaited

Awaiting ==
  \A r \in net : r.awaited =>
    IF r.mode = "live" THEN scan[r.no].place = "posted"
                       ELSE sending[scan[r.no].at] = r.no

DrainsItsOwn ==
  \A k \in Kiosks : sending[k] # 0 =>
    /\ sending[k] \in Rows(k, "pending") \cup Rows(k, "dead")
    /\ \E r \in net : r.no = sending[k] /\ r.awaited

\* Of the scan in hand there is one request, and a kiosk's drain waits for one.
Paired ==
  /\ \A q, r \in net : scan[q.no].place = "posted" /\ r.no = q.no => q = r /\ q.mode = "live"
  /\ \A q, r \in net : /\ q.mode # "live" /\ r.mode # "live" /\ q.awaited /\ r.awaited
                        /\ scan[q.no].at = scan[r.no].at
                        => q = r

\* Only scans that were read are anywhere, each with the time its kiosk's clock
\* showed.
Numbered ==
  /\ \A r \in net : r.no <= reads
  /\ \A n \in Scans : scan[n].place = "unread" <=> n > reads
  /\ \A n \in effects \cup Held : n <= reads
  /\ \A n \in Scans : n <= reads => scan[n].stamp \in {2 * n, 2 * n + Ahead}

\* The rotation holds dead rows of its kiosk, each once.
Rotates ==
  \A k \in Kiosks :
    /\ \A i \in DOMAIN tried[k] : tried[k][i] \in Rows(k, "dead")
    /\ \A h, i \in DOMAIN tried[k] : tried[k][h] = tried[k][i] => h = i

Later(n, m) == n < m /\ m <= reads /\ scan[m].at = scan[n].at

\* While a scan is in hand its kiosk reads no other.
InHandIsLast == \A n, m \in Scans : Later(n, m) => scan[n].place # "posted"

\* Not marked as suspect, at a kiosk that notices when its clock is set right.
Trusted(n) == ~scan[n].suspect /\ clock[scan[n].at] # "unnoticed"

\* A queued scan was stamped by the clock its kiosk still has, so the queue's
\* order is the order of reading.
Timed ==
  /\ \A n \in Scans : /\ scan[n].place \in {"posted", "pending"} /\ Trusted(n)
                      /\ scan[n].stamp # 2 * n
                      => clock[scan[n].at] \in {"ahead", "stepped"}
  /\ \A n, m \in Scans : Later(n, m) /\ scan[n].place = "pending" /\ Trusted(n)
                           => scan[n].stamp < scan[m].stamp

\* Behind a queued scan the later ones of its person are queued and were never
\* sent.
Overtaken ==
  \A n, m \in Scans :
    /\ Later(n, m) /\ scan[n].place = "pending" /\ Trusted(n)
    /\ scan[m].who = scan[n].who
    => /\ scan[m].place = "pending"
       /\ m \notin effects \cup Held
       /\ \A r \in net : r.no # m

\* Of a refused scan no request is left that the server would apply.
Settled ==
  \A r \in net :
    /\ scan[r.no].place # "rejected"
    /\ scan[r.no].place = "dead" /\ r.mode # "dead" =>
         ~r.awaited /\ scan[r.no].who \in unknown

\* The visits know of every scan that took effect, if its stamp was right.
Applied == \A n \in effects : scan[n].stamp = 2 * n => latest[scan[n].who] >= 2 * n

\* A transaction that was begun holds its person's lock, and applies what is not
\* recorded yet.
Lock(N) ==
  \A q, r \in N : TakenUp(q) /\ TakenUp(r) /\ scan[q.no].who = scan[r.no].who => q = r

Begun ==
  /\ Lock(net)
  /\ \A r \in net : TakenUp(r) =>
       log[r.no] = 0 /\ scan[r.no].who \notin unknown /\ r.mode \in {"live", "replay"}

\* A held scan is recorded, and keeps the time of its event.
OnHold ==
  \A n \in Held :
    /\ log[n] > 0
    /\ parked[n] = scan[n].stamp \/ parked[n] > 2 * n

\* Unless it was passed by, the person of a scan that is held or being applied
\* has not come in since, and of a replay there is no newer activity.
Waiting ==
  /\ \A n \in Held \ missed :
       /\ ~open /\ scan[n].who \notin inside
       /\ parked[n] = scan[n].stamp /\ scan[n].stamp = 2 * n => latest[scan[n].who] <= 2 * n
  /\ \A r \in net : TakenUp(r) /\ r.no \notin missed =>
       /\ scan[r.no].who \notin inside
       /\ r.saw = "closed" => ~open
       /\ r.mode = "replay" => latest[scan[r.no].who] <= scan[r.no].stamp

\* What EffectsInOrder speaks of.
Ordinary(n) == Trusted(n) /\ n \notin ignored \cup collided /\ scan[n].place # "lost"

\* No later scan of its kiosk went before one that is held.
HeldFirst ==
  \A n \in Held \ missed : \A m \in effects :
    Ordinary(n) /\ scan[m].who = scan[n].who /\ scan[m].at = scan[n].at => m <= n

Door == Begun /\ OnHold /\ Waiting /\ HeldFirst

Queue == Types /\ PostedIsSent /\ Awaiting /\ DrainsItsOwn /\ Paired /\ Numbered /\ Rotates

Order == InHandIsLast /\ Timed /\ Overtaken /\ Settled

IInv == Queue /\ Order /\ Applied /\ RecordedOnce /\ AcknowledgedIsRecorded /\ Door

LEMMA AwaitedOnce ==
  ASSUME Awaiting, Paired, NEW q \in net, NEW r \in net, q.awaited, r.awaited, q.no = r.no
  PROVE  q = r
BY DEF Awaiting, Paired

LEMMA QueueSuffices == Queue => TypeOK
<1> SUFFICES ASSUME Queue
             PROVE  TypeOK
  OBVIOUS
<1>1. OneRequest
  BY AwaitedOnce DEF OneRequest, Queue, PostedIsSent, Awaiting, DrainsItsOwn
<1> QED  BY <1>1 DEF TypeOK, Queue, Types

-----------------------------------------------------------------------------
(* Rows in turn.                                                           *)

Once(s) == \A h, i \in DOMAIN s : s[h] = s[i] => h = i

Holds(s, n) == \E i \in DOMAIN s : s[i] = n

LEMMA WithoutRow ==
  ASSUME NEW S, NEW s \in Seq(S), Once(s), NEW n
  PROVE  /\ Without(s, n) \in Seq(S)
         /\ Once(Without(s, n))
         /\ \A x : Holds(Without(s, n), x) <=> Holds(s, x) /\ x # n
<1>1. CASE ~Holds(s, n)
  BY <1>1 DEF Without, Holds
<1>2. CASE Holds(s, n)
  <2> DEFINE i == CHOOSE i \in DOMAIN s : s[i] = n
             a == SubSeq(s, 1, i - 1)
             b == SubSeq(s, i + 1, Len(s))
             t == a \o b
  <2>1. i \in DOMAIN s /\ s[i] = n
    BY <1>2 DEF Holds
  <2>2. DOMAIN s = 1 .. Len(s) /\ Len(s) \in Nat /\ i \in 1 .. Len(s) /\ \A h \in 1 .. Len(s) : s[h] \in S
    BY <2>1
  <2>3. Without(s, n) = t
    BY <1>2 DEF Without, Holds
  <2> HIDE DEF i
  <2>4. /\ a \in Seq(S) /\ Len(a) = i - 1
        /\ \A h \in 1 .. i - 1 : a[h] = s[h]
    <3>1. 1 \in Int /\ i - 1 \in Int /\ \A h \in 1 .. i - 1 : s[h] \in S
      BY <2>2
    <3>2. /\ a \in Seq(S)
          /\ Len(a) = IF 1 <= i - 1 THEN (i - 1) - 1 + 1 ELSE 0
          /\ \A h \in 1 .. (i - 1) - 1 + 1 : a[h] = s[1 + h - 1]
      BY <3>1, SubSeqProperties
    <3> QED  BY <2>2, <3>2
  <2>5. /\ b \in Seq(S) /\ Len(b) = Len(s) - i
        /\ \A h \in 1 .. Len(s) - i : b[h] = s[h + i]
    <3>1. i + 1 \in Int /\ Len(s) \in Int /\ \A h \in i + 1 .. Len(s) : s[h] \in S
      BY <2>2
    <3>2. /\ b \in Seq(S)
          /\ Len(b) = IF i + 1 <= Len(s) THEN Len(s) - (i + 1) + 1 ELSE 0
          /\ \A h \in 1 .. Len(s) - (i + 1) + 1 : b[h] = s[(i + 1) + h - 1]
      BY <3>1, SubSeqProperties
    <3>3. \A h \in 1 .. Len(s) - i : (i + 1) + h - 1 = h + i /\ h \in 1 .. Len(s) - (i + 1) + 1
      BY <2>2
    <3>4. \A h \in 1 .. Len(s) - i : b[h] = s[h + i]
      <4> TAKE h \in 1 .. Len(s) - i
      <4>1. (i + 1) + h - 1 = h + i /\ h \in 1 .. Len(s) - (i + 1) + 1
        BY <3>3
      <4>2. b[h] = s[(i + 1) + h - 1]
        BY <3>2, <4>1
      <4> QED  BY <4>1, <4>2
    <3>5. Len(b) = Len(s) - i
      <4>1. Len(s) \in Nat /\ i \in 1 .. Len(s)
        BY <2>2
      <4>2. (IF i + 1 <= Len(s) THEN Len(s) - (i + 1) + 1 ELSE 0) = Len(s) - i
        BY <4>1
      <4> QED  BY <3>2, <4>2
    <3> QED  BY <3>2, <3>4, <3>5
  <2> HIDE DEF a, b
  <2>6. /\ t \in Seq(S) /\ Len(t) = Len(s) - 1
        /\ DOMAIN t = 1 .. Len(s) - 1
        /\ \A h \in 1 .. Len(s) - 1 : t[h] = IF h < i THEN s[h] ELSE s[h + 1]
    <3>1. /\ t \in Seq(S) /\ Len(t) = Len(a) + Len(b)
          /\ \A h \in 1 .. Len(a) + Len(b) : t[h] = IF h <= Len(a) THEN a[h] ELSE b[h - Len(a)]
      BY <2>4, <2>5, ConcatProperties
    <3>2. Len(t) = Len(s) - 1
      BY <2>2, <2>4, <2>5, <3>1
    <3>3. DOMAIN t = 1 .. Len(s) - 1
      BY <3>1, <3>2, LenProperties
    <3>4. ASSUME NEW h \in 1 .. Len(s) - 1
          PROVE  t[h] = IF h < i THEN s[h] ELSE s[h + 1]
      <4>1. CASE h < i
        BY <2>2, <2>4, <2>5, <3>1, <4>1
      <4>2. CASE ~(h < i)
        <5>1. t[h] = b[h - Len(a)] /\ h - Len(a) \in 1 .. Len(s) - i
          BY <2>2, <2>4, <2>5, <3>1, <4>2
        <5> QED  BY <2>2, <2>4, <2>5, <4>2, <5>1
      <4> QED  BY <4>1, <4>2
    <3> QED  BY <3>1, <3>2, <3>3, <3>4
  <2> HIDE DEF t
  <2>7. Once(t)
    <3>1. SUFFICES ASSUME NEW h \in 1 .. Len(s) - 1, NEW j \in 1 .. Len(s) - 1, t[h] = t[j]
                   PROVE  h = j
      BY <2>6 DEF Once
    <3>2. \A x, y \in 1 .. Len(s) : s[x] = s[y] => x = y
      BY <2>2 DEF Once
    <3> QED  BY <2>2, <2>6, <3>1, <3>2
  <2>8. ASSUME NEW x, Holds(t, x)
        PROVE  Holds(s, x) /\ x # n
    <3>1. PICK h \in 1 .. Len(s) - 1 : t[h] = x
      BY <2>6, <2>8 DEF Holds
    <3>2. PICK j \in 1 .. Len(s) : j # i /\ s[j] = x
      BY <2>2, <2>6, <3>1
    <3> QED  BY <2>1, <2>2, <3>2 DEF Holds, Once
  <2>9. ASSUME NEW x, Holds(s, x), x # n
        PROVE  Holds(t, x)
    <3>1. PICK h \in 1 .. Len(s) : s[h] = x
      BY <2>2, <2>9 DEF Holds
    <3>2. h # i
      BY <2>1, <2>9, <3>1
    <3>3. CASE h < i
      <4>1. h \in 1 .. Len(s) - 1 /\ t[h] = s[h]
        BY <2>2, <2>6, <3>3
      <4> QED  BY <2>6, <3>1, <4>1 DEF Holds
    <3>4. CASE h > i
      <4>1. h - 1 \in 1 .. Len(s) - 1 /\ ~(h - 1 < i) /\ t[h - 1] = s[h]
        BY <2>2, <2>6, <3>1, <3>4
      <4> QED  BY <2>6, <3>1, <4>1 DEF Holds
    <3> QED  BY <2>2, <3>1, <3>2, <3>3, <3>4
  <2> QED  BY <2>3, <2>6, <2>7, <2>8, <2>9
<1> QED  BY <1>1, <1>2

LEMMA AppendRow ==
  ASSUME NEW S, NEW s \in Seq(S), Once(s), NEW n \in S, ~Holds(s, n)
  PROVE  /\ Append(s, n) \in Seq(S)
         /\ Once(Append(s, n))
         /\ \A x : Holds(Append(s, n), x) <=> Holds(s, x) \/ x = n
<1> DEFINE t == Append(s, n)
<1>1. /\ t \in Seq(S) /\ Len(t) = Len(s) + 1 /\ Len(s) \in Nat
      /\ DOMAIN t = 1 .. Len(s) + 1 /\ DOMAIN s = 1 .. Len(s)
      /\ \A i \in 1 .. Len(s) : t[i] = s[i]
      /\ t[Len(s) + 1] = n
  OBVIOUS
<1> HIDE DEF t
<1>2. Once(t)
  BY <1>1 DEF Once, Holds
<1>3. ASSUME NEW x
      PROVE  Holds(t, x) <=> Holds(s, x) \/ x = n
  BY <1>1 DEF Holds
<1> QED  BY <1>1, <1>2, <1>3 DEF t

-----------------------------------------------------------------------------
(* Fields, and what a step leaves of a scan.                               *)

LEMMA Fields ==
  ASSUME Types
  PROVE  /\ MaxScans \in Nat /\ reads \in Nat
         /\ \A n \in Scans : /\ n \in Nat /\ 1 <= n
                             /\ scan[n].who \in People /\ scan[n].at \in Kiosks
                             /\ scan[n].stamp \in Nat
                             /\ scan[n].suspect \in BOOLEAN /\ scan[n].place \in Places
         /\ \A r \in net : /\ r.no \in Scans /\ r.mode \in {"live", "replay", "dead"}
                           /\ r.suspect \in BOOLEAN /\ r.awaited \in BOOLEAN
         /\ Ahead \in Nat
<1>1. MaxScans \in Nat /\ reads \in Nat /\ Ahead \in Nat
  BY KioskAssumption DEF Types, Ahead
<1>2. ASSUME NEW n \in Scans
      PROVE  /\ n \in Nat /\ 1 <= n
             /\ scan[n].who \in People /\ scan[n].at \in Kiosks
             /\ scan[n].stamp \in Nat
             /\ scan[n].suspect \in BOOLEAN /\ scan[n].place \in Places
  <2>1. n \in Nat /\ 1 <= n
    BY <1>1 DEF Scans
  <2>2. scan[n] \in ScanType
    BY DEF Types
  <2> QED  BY <2>1, <2>2 DEF ScanType
<1>3. ASSUME NEW r \in net
      PROVE  /\ r.no \in Scans /\ r.mode \in {"live", "replay", "dead"}
             /\ r.suspect \in BOOLEAN /\ r.awaited \in BOOLEAN
  BY DEF Types, RequestType
<1> QED  BY <1>1, <1>2, <1>3

Kept ==
  /\ scan' \in [Scans -> ScanType]
  /\ \A n \in Scans : /\ scan'[n].who = scan[n].who /\ scan'[n].at = scan[n].at
                      /\ scan'[n].stamp = scan[n].stamp /\ scan'[n].suspect = scan[n].suspect

Moved(n, place) ==
  /\ Kept
  /\ \A m \in Scans : scan'[m].place = IF m = n THEN place ELSE scan[m].place

LEMMA MoveKeeps ==
  ASSUME Types, NEW n \in Scans, NEW place \in Places, Move(n, place)
  PROVE  Moved(n, place)
<1>1. scan \in [Scans -> ScanType] /\ scan' = [scan EXCEPT ![n].place = place]
  BY DEF Types, Move
<1>2. scan' \in [Scans -> ScanType]
  BY <1>1 DEF ScanType
<1>3. ASSUME NEW m \in Scans
      PROVE  /\ scan'[m].who = scan[m].who /\ scan'[m].at = scan[m].at
             /\ scan'[m].stamp = scan[m].stamp /\ scan'[m].suspect = scan[m].suspect
             /\ scan'[m].place = IF m = n THEN place ELSE scan[m].place
  BY <1>1 DEF ScanType
<1> QED  BY <1>2, <1>3 DEF Moved, Kept

\* A request that is abandoned is gone, or there but for nobody; a transaction
\* that was begun keeps its lock.
LEMMA AbandonLeaves ==
  ASSUME Types, NEW S \in SUBSET net, Abandon(S)
  PROVE  /\ net' \subseteq RequestType
         /\ \A r \in net : r \notin S => r \in net'
         /\ \A q \in net' : \/ q \in net /\ q \notin S
                            \/ /\ ~q.awaited
                               /\ \E r \in S : q.no = r.no /\ q.mode = r.mode /\ q.saw = r.saw
         /\ Lock(net) => Lock(net')
<1>1. PICK kept \in SUBSET S :
        net' = (net \ S) \cup {[r EXCEPT !.awaited = FALSE] : r \in kept}
  BY DEF Abandon
<1>2. net \subseteq RequestType
  BY DEF Types
<1>3. ASSUME NEW r \in RequestType
      PROVE  LET q == [r EXCEPT !.awaited = FALSE] IN
             q \in RequestType /\ ~q.awaited /\ q.no = r.no /\ q.mode = r.mode /\ q.saw = r.saw
  BY DEF RequestType
<1>4. ASSUME NEW q \in net'
      PROVE  /\ q \in RequestType
             /\ \/ q \in net /\ q \notin S
                \/ /\ ~q.awaited
                   /\ \E r \in S : /\ q = [r EXCEPT !.awaited = FALSE]
                                   /\ q.no = r.no /\ q.mode = r.mode /\ q.saw = r.saw
  <2>1. CASE q \in net \ S
    BY <1>2, <2>1
  <2>2. ASSUME NEW r \in kept, q = [r EXCEPT !.awaited = FALSE]
        PROVE  /\ q \in RequestType
               /\ ~q.awaited
               /\ \E h \in S : /\ q = [h EXCEPT !.awaited = FALSE]
                               /\ q.no = h.no /\ q.mode = h.mode /\ q.saw = h.saw
    BY <1>2, <1>3, <2>2
  <2> QED  BY <1>1, <2>1, <2>2
<1>5. ASSUME Lock(net), NEW q \in net', NEW r \in net', TakenUp(q), TakenUp(r),
             scan[q.no].who = scan[r.no].who
      PROVE  q = r
  <2>1. PICK a \in net : /\ a.no = q.no /\ a.saw = q.saw
                         /\ \/ q = a /\ a \notin S
                            \/ a \in S /\ q = [a EXCEPT !.awaited = FALSE]
    BY <1>4
  <2>2. PICK b \in net : /\ b.no = r.no /\ b.saw = r.saw
                         /\ \/ r = b /\ b \notin S
                            \/ b \in S /\ r = [b EXCEPT !.awaited = FALSE]
    BY <1>4
  <2>3. a = b
    BY <1>5, <2>1, <2>2 DEF Lock, TakenUp
  <2> QED  BY <2>1, <2>2, <2>3
<1>6. Lock(net) => Lock(net')
  BY <1>5 DEF Lock
<1> QED  BY <1>1, <1>4, <1>6

\* The parts of the invariant by name.
LEMMA Parts ==
  ASSUME IInv
  PROVE  /\ Types /\ PostedIsSent /\ Awaiting /\ DrainsItsOwn /\ Paired /\ Numbered /\ Rotates
         /\ InHandIsLast /\ Timed /\ Overtaken /\ Settled
         /\ Applied /\ RecordedOnce /\ AcknowledgedIsRecorded /\ Door
BY DEF IInv, Queue, Order

\* Of the door nothing changes where visits, holds and the log stay as they are.
LEMMA DoorStays ==
  ASSUME Types, Numbered, Door,
         UNCHANGED <<log, effects, ignored, inside, latest, open, parked, missed, collided>>,
         unknown' \subseteq unknown,
         \A n \in Scans : n <= reads =>
           /\ scan'[n].who = scan[n].who /\ scan'[n].at = scan[n].at
           /\ scan'[n].stamp = scan[n].stamp
           /\ Trusted(n)' => Trusted(n)
           /\ scan[n].place = "lost" => scan'[n].place = "lost",
         \A q \in net' : TakenUp(q) =>
           \E r \in net : r.no = q.no /\ r.mode = q.mode /\ r.saw = q.saw,
         Lock(net')
  PROVE  Held' = Held /\ Door'
<1>1. Held' = Held
  BY DEF Held
<1>2. \A n \in Held \cup effects : n \in Scans /\ n <= reads
  BY DEF Types, Numbered, Held
<1>3. \A r \in net : r.no \in Scans /\ r.no <= reads
  BY Fields DEF Numbered
<1>4. Begun'
  <2>1. \A q \in net' : TakenUp(q) => q.no \in Scans /\ scan'[q.no].who = scan[q.no].who
    BY <1>3
  <2>2. Lock(net)'
    BY <2>1 DEF Lock, TakenUp
  <2>3. \A q \in net' : TakenUp(q) =>
          log'[q.no] = 0 /\ scan'[q.no].who \notin unknown' /\ q.mode \in {"live", "replay"}
    BY <2>1 DEF Door, Begun, TakenUp
  <2> QED  BY <2>2, <2>3 DEF Begun, TakenUp
<1>5. OnHold'
  BY <1>1, <1>2 DEF Door, OnHold
<1>6. Waiting'
  <2>1. \A n \in Held' \ missed' :
          /\ ~open' /\ scan'[n].who \notin inside'
          /\ parked'[n] = scan'[n].stamp /\ scan'[n].stamp = 2 * n => latest'[scan'[n].who] <= 2 * n
    BY <1>1, <1>2 DEF Door, Waiting
  <2>2. \A q \in net' : TakenUp(q) /\ q.no \notin missed' =>
          /\ scan'[q.no].who \notin inside'
          /\ q.saw = "closed" => ~open'
          /\ q.mode = "replay" => latest'[scan'[q.no].who] <= scan'[q.no].stamp
    BY <1>3 DEF Door, Waiting, TakenUp
  <2> QED  BY <2>1, <2>2 DEF Waiting, TakenUp
<1>7. HeldFirst'
  BY <1>1, <1>2 DEF Door, HeldFirst, Ordinary
<1> QED  BY <1>1, <1>4, <1>5, <1>6, <1>7 DEF Door

-----------------------------------------------------------------------------
(* The scanner thread.                                                     *)

LEMMA GiveUpLiveKeeps ==
  ASSUME IInv, NEW n \in Scans, GiveUpLive(n)
  PROVE  IInv'
<1>1. /\ Types /\ PostedIsSent /\ Awaiting /\ DrainsItsOwn /\ Paired /\ Numbered /\ Rotates
      /\ InHandIsLast /\ Timed /\ Overtaken /\ Settled
      /\ Applied /\ RecordedOnce /\ AcknowledgedIsRecorded /\ Door
  BY Parts
<1>2. Moved(n, "pending") /\ scan[n].place = "posted"
  BY <1>1, MoveKeeps DEF GiveUpLive, Places
<1>3. /\ net' \subseteq RequestType
      /\ \A r \in net : r.no # n => r \in net'
      /\ \A q \in net' : \/ q \in net /\ q.no # n
                         \/ q.no = n /\ ~q.awaited
      /\ \A q \in net' : \E r \in net : r.no = q.no /\ r.mode = q.mode /\ r.saw = q.saw
      /\ Lock(net) => Lock(net')
  <2> DEFINE S == {r \in net : r.no = n}
  <2>1. S \in SUBSET net /\ Abandon(S)
    BY DEF GiveUpLive
  <2> QED  BY <1>1, <2>1, AbandonLeaves
<1>4. UNCHANGED <<reads, tried, sending, clock, unknown, log, effects, ignored, inside, latest,
                 open, parked, missed, collided>>
  BY DEF GiveUpLive, server, visits, door
<1>17. Held' = Held /\ Door'
  <2>1. \A m \in Scans :
          /\ scan'[m].who = scan[m].who /\ scan'[m].at = scan[m].at /\ scan'[m].stamp = scan[m].stamp
          /\ Trusted(m)' => Trusted(m)
          /\ scan[m].place = "lost" => scan'[m].place = "lost"
    BY <1>2, <1>4 DEF Moved, Kept, Trusted
  <2> QED  BY <1>1, <1>3, <1>4, <2>1, DoorStays DEF Door, Begun
<1> USE <1>1, <1>2, <1>3, <1>4, <1>17, Fields DEF Moved, Kept
<1>5. Types'
  BY DEF Types
<1>6. PostedIsSent'
  BY DEF PostedIsSent
<1>7. DrainsItsOwn'
  <2> SUFFICES ASSUME NEW j \in Kiosks, sending[j] # 0
               PROVE  /\ sending[j] \in Rows(j, "pending")' \cup Rows(j, "dead")'
                      /\ \E r \in net' : r.no = sending[j] /\ r.awaited
    BY DEF DrainsItsOwn
  <2>1. /\ sending[j] \in Rows(j, "pending") \cup Rows(j, "dead")
        /\ \E r \in net : r.no = sending[j] /\ r.awaited
    BY DEF DrainsItsOwn
  <2> QED  BY <2>1 DEF Rows
<1>8. Paired'
  BY DEF Paired
<1>9. Numbered'
  BY DEF Numbered
<1>10. Rotates'
  BY DEF Rotates, Rows
<1>11. InHandIsLast'
  BY DEF InHandIsLast, Later
<1>12. Timed'
  BY DEF Timed, InHandIsLast, Later, Trusted
<1>13. Overtaken'
  BY DEF Overtaken, InHandIsLast, Later, Trusted
<1>14. Settled'
  BY DEF Settled
<1>15. Applied' /\ RecordedOnce' /\ AcknowledgedIsRecorded'
  BY DEF Applied, RecordedOnce, AcknowledgedIsRecorded, Types
<1>16. Awaiting'
  BY DEF Awaiting
<1> QED  BY <1>5, <1>6, <1>7, <1>8, <1>9, <1>10, <1>11, <1>12, <1>13, <1>14, <1>15, <1>16, <1>17
         DEF IInv, Queue, Order

LEMMA BadgeKeeps ==
  ASSUME IInv, NEW p \in People, NEW k \in Kiosks, NEW intent \in {"IN", "OUT"}, Badge(k, p, intent)
  PROVE  IInv'
<1>0. PICK n : n = reads + 1
  OBVIOUS
<1> DEFINE behind == HasPending(k, p)
           stepped == clock[k] = "stepped"
<1>1. /\ Types /\ PostedIsSent /\ Awaiting /\ DrainsItsOwn /\ Paired /\ Numbered /\ Rotates
      /\ InHandIsLast /\ Timed /\ Overtaken /\ Settled
      /\ Applied /\ RecordedOnce /\ AcknowledgedIsRecorded /\ Door
  BY Parts
<1>2. /\ reads' = n /\ n \in Scans /\ n \in Nat
      /\ \A m \in Scans : m <= n <=> m = n \/ m <= reads
      /\ scan[n].place = "unread" /\ log[n] \in Nat
      /\ \A r \in net : r.no # n
      /\ n \notin effects \cup Held
  <2>1. reads < MaxScans /\ reads' = n
    BY <1>0 DEF Badge
  <2>2. n \in Scans /\ n \in Nat
    BY <1>0, <1>1, <2>1, Fields DEF Scans
  <2>3. \A m \in Scans : m <= n <=> m = n \/ m <= reads
    BY <1>0, <1>1, Fields
  <2>4. scan[n].place = "unread" /\ (\A r \in net : r.no # n) /\ n \notin effects \cup Held
    BY <1>0, <1>1, <2>2, Fields DEF Numbered
  <2> QED  BY <1>1, <2>1, <2>2, <2>3, <2>4 DEF Types
<1>3. /\ \A m \in Scans : scan[m].at = k => scan[m].place # "posted"
      /\ UNCHANGED <<tried, sending, unknown, log, effects, ignored, inside, latest,
                     open, parked, missed, collided>>
  BY DEF Badge, InHand, Rows, server, visits, door
<1>4. /\ scan' \in [Scans -> ScanType]
      /\ scan'[n].who = p /\ scan'[n].at = k /\ scan'[n].suspect = stepped
      /\ scan'[n].stamp = 2 * n + (IF clock[k] = "ahead" THEN Ahead ELSE 0)
      /\ scan'[n].place = IF behind THEN "pending" ELSE "posted"
      /\ \A m \in Scans : m # n =>
           /\ scan'[m].who = scan[m].who /\ scan'[m].at = scan[m].at
           /\ scan'[m].stamp = scan[m].stamp /\ scan'[m].place = scan[m].place
           /\ scan'[m].suspect <=>
                scan[m].suspect \/ (stepped /\ scan[m].at = k /\ scan[m].place = "pending")
  <2> DEFINE e == [who |-> p, at |-> k, intent |-> intent,
                   stamp |-> 2 * n + (IF clock[k] = "ahead" THEN Ahead ELSE 0),
                   suspect |-> stepped, place |-> IF behind THEN "pending" ELSE "posted"]
  <2>1. scan' = Suspected(k, n, e)
    BY <1>0 DEF Badge
  <2>2. e \in ScanType
    <3>1. 2 * n + (IF clock[k] = "ahead" THEN Ahead ELSE 0) \in Nat
      BY <1>1, <1>2, Fields
    <3>2. (IF behind THEN "pending" ELSE "posted") \in Places /\ stepped \in BOOLEAN
      BY DEF Places
    <3> QED  BY <3>1, <3>2 DEF ScanType
  <2> HIDE DEF e
  <2>3. scan'[n] = e
    BY <1>2, <2>1 DEF Suspected
  <2>4. ASSUME NEW m \in Scans, m # n
        PROVE  /\ scan'[m] \in ScanType
               /\ scan'[m].who = scan[m].who /\ scan'[m].at = scan[m].at
               /\ scan'[m].stamp = scan[m].stamp /\ scan'[m].place = scan[m].place
               /\ scan'[m].suspect <=>
                    scan[m].suspect \/ (stepped /\ scan[m].at = k /\ scan[m].place = "pending")
    <3>1. scan[m] \in ScanType
      BY <1>1 DEF Types
    <3>2. CASE stepped /\ scan[m].at = k /\ scan[m].place = "pending"
      <4>1. scan'[m] = [scan[m] EXCEPT !.suspect = TRUE]
        BY <2>1, <2>4, <3>2 DEF Suspected
      <4> QED  BY <3>1, <3>2, <4>1 DEF ScanType
    <3>3. CASE ~(stepped /\ scan[m].at = k /\ scan[m].place = "pending")
      <4>1. scan'[m] = scan[m]
        BY <2>1, <2>4, <3>3 DEF Suspected
      <4> QED  BY <3>1, <3>3, <4>1
    <3> QED  BY <3>2, <3>3
  <2>5. scan' \in [Scans -> ScanType]
    BY <2>1, <2>2, <2>3, <2>4 DEF Suspected
  <2> QED  BY <2>3, <2>4, <2>5 DEF e
<1>5. /\ clock' \in [Kiosks -> Clocks]
      /\ clock'[k] = IF stepped THEN "right" ELSE clock[k]
      /\ \A j \in Kiosks : j # k => clock'[j] = clock[j]
  BY <1>1 DEF Badge, Types, Clocks
<1>6. /\ net \subseteq net'
      /\ \A r \in net' \ net : r \in RequestType /\ r.no = n /\ r.mode = "live" /\ r.awaited /\ ~behind /\ ~TakenUp(r)
      /\ \A q, r \in net' \ net : q = r
      /\ ~behind => \E r \in net' : r.no = n /\ r.mode = "live" /\ r.awaited
  <2> DEFINE q == Request(n, "live", stepped)
  <2>1. q \in RequestType /\ q.no = n /\ q.mode = "live" /\ q.awaited /\ ~TakenUp(q)
    BY <1>2 DEF Request, RequestType, TakenUp
  <2>2. net' = IF behind THEN net ELSE net \cup {q}
    BY <1>0 DEF Badge
  <2> HIDE DEF q, behind
  <2> QED  BY <2>1, <2>2
<1>7. behind <=> \E m \in Scans : scan[m].at = k /\ scan[m].place = "pending" /\ scan[m].who = p
  BY DEF HasPending, Rows
<1> HIDE DEF behind, stepped
<1>8. Types'
  <2>1. reads' \in 0 .. MaxScans
    BY <1>1, <1>2, Fields DEF Scans
  <2>2. net' \subseteq RequestType
    BY <1>1, <1>6 DEF Types
  <2> QED  BY <1>1, <1>3, <1>4, <1>5, <2>1, <2>2 DEF Types
<1>9. PostedIsSent'
  BY <1>1, <1>2, <1>3, <1>4, <1>6 DEF PostedIsSent
<1>10. Awaiting' /\ DrainsItsOwn' /\ Rotates'
  <2>1. \A j \in Kiosks, place \in {"pending", "dead"} : Rows(j, place) \subseteq Rows(j, place)'
    BY <1>2, <1>4 DEF Rows
  <2>2. DrainsItsOwn'
    BY <1>1, <1>3, <1>6, <2>1 DEF DrainsItsOwn
  <2>3. Rotates'
    BY <1>1, <1>3, <2>1 DEF Rotates
  <2>4. \A r \in net : scan'[r.no].at = scan[r.no].at /\ scan'[r.no].place = scan[r.no].place
    BY <1>1, <1>2, <1>4, Fields
  <2>5. Awaiting'
    BY <1>1, <1>3, <1>4, <1>6, <2>4 DEF Awaiting
  <2> QED  BY <2>2, <2>3, <2>5
<1>11. Paired'
  <2>1. \A r \in net : /\ scan'[r.no].at = scan[r.no].at /\ scan'[r.no].place = scan[r.no].place
                       /\ r.no # n
    BY <1>1, <1>2, <1>4, Fields
  <2>2. \A q, r \in net' : scan'[q.no].place = "posted" /\ r.no = q.no => q = r /\ q.mode = "live"
    BY <1>1, <1>6, <2>1 DEF Paired
  <2>3. \A q, r \in net' : /\ q.mode # "live" /\ r.mode # "live" /\ q.awaited /\ r.awaited
                           /\ scan'[q.no].at = scan'[r.no].at
                           => q = r
    BY <1>1, <1>6, <2>1 DEF Paired
  <2> QED  BY <2>2, <2>3 DEF Paired
<1>12. Numbered'
  <2>1. \A r \in net' : r.no <= n
    BY <1>1, <1>2, <1>6, Fields DEF Numbered
  <2>2. \A m \in Scans : scan'[m].place = "unread" <=> m > n
    <3> TAKE m \in Scans
    <3>1. CASE m = n
      BY <1>2, <1>4, <3>1
    <3>2. CASE m # n
      BY <1>1, <1>2, <1>4, <3>2, Fields DEF Numbered
    <3> QED  BY <3>1, <3>2
  <2>3. \A m \in effects \cup Held : m <= n
    BY <1>1, <1>2 DEF Numbered, Types, Held
  <2>4. \A m \in Scans : m <= n => scan'[m].stamp \in {2 * m, 2 * m + Ahead}
    <3> TAKE m \in Scans
    <3>1. CASE m = n
      BY <1>2, <1>4, <3>1
    <3>2. CASE m # n
      BY <1>1, <1>2, <1>4, <3>2, Fields DEF Numbered
    <3> QED  BY <3>1, <3>2
  <2> QED  BY <1>2, <1>3, <2>1, <2>2, <2>3, <2>4 DEF Numbered, Held
<1>13. InHandIsLast'
  BY <1>1, <1>2, <1>3, <1>4, Fields DEF InHandIsLast, Later
<1>14. ASSUME NEW m \in Scans, m # n, Trusted(m)'
       PROVE  /\ Trusted(m)
              /\ ~(stepped /\ scan[m].at = k /\ scan[m].place = "pending")
  <2>1. /\ ~scan'[m].suspect /\ clock'[scan[m].at] # "unnoticed"
        /\ scan'[m].suspect <=>
             scan[m].suspect \/ (stepped /\ scan[m].at = k /\ scan[m].place = "pending")
    BY <1>4, <1>14 DEF Trusted
  <2>2. scan[m].at \in Kiosks
    BY <1>1, Fields
  <2>3. clock[scan[m].at] # "unnoticed"
    BY <1>5, <2>1, <2>2 DEF stepped
  <2> QED  BY <2>1, <2>3 DEF Trusted
<1>15. \A m \in Scans : ~Later(n, m)'
  BY <1>2, Fields, <1>1 DEF Later
<1>16. ASSUME NEW h \in Scans, NEW m \in Scans, Later(h, m)'
       PROVE  h # n /\ (m # n => Later(h, m))
  <2>1. h < m /\ m <= n /\ scan'[m].at = scan'[h].at
    BY <1>2, <1>16 DEF Later
  <2>2. h # n
    BY <1>15, <1>16
  <2> QED  BY <1>2, <1>4, <2>1, <2>2 DEF Later
<1>22. Held' = Held /\ Door'
  <2>1. \A m \in Scans : m <= reads => m # n
    BY <1>0, <1>1, Fields
  <2>2. \A q \in net' : TakenUp(q) => q \in net
    BY <1>6
  <2>3. Lock(net')
    BY <1>1, <2>2 DEF Door, Begun, Lock
  <2> QED  BY <1>1, <1>3, <1>4, <1>14, <2>1, <2>2, <2>3, DoorStays
<1>17. Timed'
  <2>1. ASSUME NEW m \in Scans, scan'[m].place \in {"posted", "pending"}, Trusted(m)',
               scan'[m].stamp # 2 * m
        PROVE  clock'[scan'[m].at] \in {"ahead", "stepped"}
    <3>1. CASE m = n
      BY <1>2, <1>4, <1>5, <2>1, <3>1 DEF stepped
    <3>2. CASE m # n
      <4>1. clock[scan[m].at] \in {"ahead", "stepped"}
        BY <1>1, <1>4, <1>14, <2>1, <3>2 DEF Timed
      <4>2. scan[m].at # k \/ ~stepped
        BY <1>3, <1>4, <1>14, <2>1, <3>2
      <4> QED  BY <1>1, <1>4, <1>5, <3>2, <4>1, <4>2, Fields DEF stepped
    <3> QED  BY <3>1, <3>2
  <2>2. ASSUME NEW h \in Scans, NEW m \in Scans, Later(h, m)', scan'[h].place = "pending", Trusted(h)'
        PROVE  scan'[h].stamp < scan'[m].stamp
    <3>1. h # n /\ Trusted(h) /\ scan[h].place = "pending"
      BY <1>4, <1>14, <1>16, <2>2
    <3>2. CASE m # n
      BY <1>1, <1>4, <1>16, <2>2, <3>1, <3>2 DEF Timed
    <3>3. CASE m = n
      <4>1. scan[h].at = k /\ h < n /\ h <= reads
        <5>1. h < n /\ scan'[h].at = scan'[n].at
          BY <2>2, <3>3 DEF Later
        <5> QED  BY <1>0, <1>1, <1>2, <1>4, <3>1, <5>1, Fields
      <4>2. ~stepped
        BY <1>14, <2>2, <3>1, <4>1
      <4>3. scan[h].stamp \in {2 * h, 2 * h + Ahead}
        BY <1>1, <4>1 DEF Numbered
      <4>4. scan[h].stamp = 2 * h \/ clock[k] = "ahead"
        BY <1>1, <3>1, <4>1, <4>2 DEF Timed, stepped
      <4> QED  BY <1>1, <1>2, <1>4, <3>1, <3>3, <4>1, <4>3, <4>4, Fields
    <3> QED  BY <3>2, <3>3
  <2> QED  BY <2>1, <2>2 DEF Timed
<1>18. Overtaken'
  <2> SUFFICES ASSUME NEW h \in Scans, NEW m \in Scans, Later(h, m)', scan'[h].place = "pending",
                      Trusted(h)', scan'[m].who = scan'[h].who
               PROVE  scan'[m].place = "pending" /\ m \notin effects \cup Held /\ \A r \in net' : r.no # m
    BY <1>3, <1>22 DEF Overtaken
  <2>1. h # n /\ Trusted(h) /\ scan[h].place = "pending"
    BY <1>4, <1>14, <1>16
  <2>2. CASE m # n
    <3>1. scan[m].place = "pending" /\ m \notin effects \cup Held /\ \A r \in net : r.no # m
      BY <1>1, <1>4, <1>16, <2>1, <2>2 DEF Overtaken
    <3> QED  BY <1>4, <1>6, <2>2, <3>1
  <2>3. CASE m = n
    <3>1. behind
      BY <1>4, <1>7, <2>1, <2>3 DEF Later
    <3> QED  BY <1>2, <1>4, <1>6, <2>3, <3>1
  <2> QED  BY <2>2, <2>3
<1>19. Settled'
  BY <1>1, <1>2, <1>3, <1>4, <1>6, Fields DEF Settled
<1>20. Applied'
  BY <1>1, <1>2, <1>3, <1>4 DEF Applied, Types
<1>21. RecordedOnce' /\ AcknowledgedIsRecorded'
  BY <1>1, <1>2, <1>3, <1>4 DEF RecordedOnce, AcknowledgedIsRecorded
<1> QED  BY <1>8, <1>9, <1>10, <1>11, <1>12, <1>13, <1>17, <1>18, <1>19, <1>20, <1>21, <1>22
         DEF IInv, Queue, Order

-----------------------------------------------------------------------------
(* The kiosk as a whole.                                                   *)

LEMMA SetClockKeeps ==
  ASSUME IInv, NEW k \in Kiosks, SetClock(k)
  PROVE  IInv'
<1>1. /\ Types /\ PostedIsSent /\ Awaiting /\ DrainsItsOwn /\ Paired /\ Numbered /\ Rotates
      /\ InHandIsLast /\ Timed /\ Overtaken /\ Settled
      /\ Applied /\ RecordedOnce /\ AcknowledgedIsRecorded /\ Door
  BY Parts
<1>2. /\ clock' \in [Kiosks -> Clocks]
      /\ clock[k] = "ahead" /\ clock'[k] = "stepped"
      /\ \A j \in Kiosks : j # k => clock'[j] = clock[j]
  BY <1>1 DEF SetClock, Types, Clocks
<1>3. UNCHANGED <<reads, scan, tried, sending, net, unknown, log, effects, ignored, inside, latest,
                 open, parked, missed, collided>>
  BY DEF SetClock, server, visits, door
<1>4. Held' = Held /\ Door'
  <2>1. \A n \in Scans : Trusted(n)' => Trusted(n)
    BY <1>1, <1>2, <1>3, Fields DEF Trusted
  <2> QED  BY <1>1, <1>3, <2>1, DoorStays DEF Door, Begun
<1> USE <1>1, <1>2, <1>3, <1>4, Fields
<1>5. Types'
  BY DEF Types
<1>6. PostedIsSent'
  BY DEF PostedIsSent
<1>7. Awaiting' /\ DrainsItsOwn'
  BY DEF Awaiting, DrainsItsOwn, Rows
<1>8. Paired'
  BY DEF Paired
<1>9. Numbered'
  BY DEF Numbered
<1>10. Rotates'
  BY DEF Rotates, Rows
<1>11. InHandIsLast'
  BY DEF InHandIsLast, Later
<1>12. Timed'
  BY DEF Timed, Later, Trusted
<1>13. Overtaken'
  BY DEF Overtaken, Later, Trusted
<1>14. Settled'
  BY DEF Settled
<1>15. Applied' /\ RecordedOnce' /\ AcknowledgedIsRecorded'
  BY DEF Applied, RecordedOnce, AcknowledgedIsRecorded
<1> QED  BY <1>4, <1>5, <1>6, <1>7, <1>8, <1>9, <1>10, <1>11, <1>12, <1>13, <1>14, <1>15
         DEF IInv, Queue, Order

LEMMA CrashKeeps ==
  ASSUME IInv, NEW k \in Kiosks, Crash(k)
  PROVE  IInv'
<1>1. /\ Types /\ PostedIsSent /\ Awaiting /\ DrainsItsOwn /\ Paired /\ Numbered /\ Rotates
      /\ InHandIsLast /\ Timed /\ Overtaken /\ Settled
      /\ Applied /\ RecordedOnce /\ AcknowledgedIsRecorded /\ Door
  BY Parts
<1>2. /\ Kept
      /\ \A n \in Scans : scan'[n].place =
           IF scan[n].at = k /\ scan[n].place = "posted" THEN "lost" ELSE scan[n].place
  <2>1. scan' = [n \in Scans |-> IF n \in InHand(k) THEN [scan[n] EXCEPT !.place = "lost"] ELSE scan[n]]
    BY DEF Crash
  <2>2. ASSUME NEW n \in Scans
        PROVE  /\ scan'[n] \in ScanType
               /\ scan'[n].who = scan[n].who /\ scan'[n].at = scan[n].at
               /\ scan'[n].stamp = scan[n].stamp /\ scan'[n].suspect = scan[n].suspect
               /\ scan'[n].place =
                    IF scan[n].at = k /\ scan[n].place = "posted" THEN "lost" ELSE scan[n].place
    <3>1. scan[n] \in ScanType
      BY <1>1 DEF Types
    <3> QED  BY <2>1, <3>1 DEF InHand, Rows, ScanType, Places
  <2> QED  BY <2>1, <2>2 DEF Kept
<1>3. /\ sending' \in [Kiosks -> 0 .. MaxScans] /\ sending'[k] = 0
      /\ \A j \in Kiosks : j # k => sending'[j] = sending[j]
      /\ clock' \in [Kiosks -> Clocks]
      /\ clock'[k] = IF clock[k] = "stepped" THEN "unnoticed" ELSE clock[k]
      /\ \A j \in Kiosks : j # k => clock'[j] = clock[j]
  BY <1>1, KioskAssumption DEF Crash, Types, Clocks
<1>4. /\ net' \subseteq RequestType
      /\ \A r \in net : scan[r.no].at # k => r \in net'
      /\ \A q \in net' : \/ q \in net /\ ~(scan[q.no].at = k /\ q.awaited)
                         \/ /\ ~q.awaited
                            /\ \E r \in net : /\ q.no = r.no /\ q.mode = r.mode
                                              /\ scan[r.no].at = k /\ r.awaited
      /\ \A q \in net' : \E r \in net : r.no = q.no /\ r.mode = q.mode /\ r.saw = q.saw
      /\ Lock(net) => Lock(net')
      /\ UNCHANGED <<reads, tried, unknown, log, effects, ignored, inside, latest,
                     open, parked, missed, collided>>
  <2> DEFINE S == {r \in net : scan[r.no].at = k /\ r.awaited}
  <2>1. S \in SUBSET net /\ Abandon(S)
    BY DEF Crash
  <2>2. UNCHANGED <<reads, tried, unknown, log, effects, ignored, inside, latest,
                     open, parked, missed, collided>>
    BY DEF Crash, server, visits, door
  <2> QED  BY <1>1, <2>1, <2>2, AbandonLeaves
<1>17. Held' = Held /\ Door'
  <2>1. \A n \in Scans :
          /\ scan'[n].who = scan[n].who /\ scan'[n].at = scan[n].at /\ scan'[n].stamp = scan[n].stamp
          /\ Trusted(n)' => Trusted(n)
          /\ scan[n].place = "lost" => scan'[n].place = "lost"
    BY <1>1, <1>2, <1>3, Fields DEF Kept, Trusted
  <2> QED  BY <1>1, <1>4, <2>1, DoorStays DEF Door, Begun
<1>18. Applied'
  <2>1. effects \subseteq Scans
    BY <1>1 DEF Types
  <2> QED  BY <1>1, <1>2, <1>4, <2>1 DEF Applied, Kept
<1> USE <1>1, <1>2, <1>3, <1>4, <1>17, Fields DEF Kept
<1>5. Types'
  BY DEF Types
<1>6. PostedIsSent'
  BY DEF PostedIsSent
<1>7. DrainsItsOwn'
  <2> SUFFICES ASSUME NEW j \in Kiosks, sending'[j] # 0
               PROVE  /\ sending'[j] \in Rows(j, "pending")' \cup Rows(j, "dead")'
                      /\ \E r \in net' : r.no = sending'[j] /\ r.awaited
    BY DEF DrainsItsOwn
  <2>1. /\ sending'[j] \in Rows(j, "pending") \cup Rows(j, "dead")
        /\ \E r \in net : r.no = sending'[j] /\ r.awaited
    BY DEF DrainsItsOwn
  <2> QED  BY <2>1 DEF Rows
<1>8. Paired'
  BY DEF Paired
<1>9. Numbered'
  BY DEF Numbered
<1>10. Rotates'
  BY DEF Rotates, Rows
<1>11. InHandIsLast'
  BY DEF InHandIsLast, Later
<1>12. Timed'
  BY DEF Timed, Later, Trusted
<1>13. Overtaken'
  BY DEF Overtaken, Later, Trusted
<1>14. Settled'
  BY DEF Settled
<1>15. RecordedOnce' /\ AcknowledgedIsRecorded'
  BY DEF RecordedOnce, AcknowledgedIsRecorded
<1>16. Awaiting'
  BY DEF Awaiting
<1> QED  BY <1>5, <1>6, <1>7, <1>8, <1>9, <1>10, <1>11, <1>12, <1>13, <1>14, <1>15, <1>16, <1>17, <1>18
         DEF IInv, Queue, Order

-----------------------------------------------------------------------------
(* The drain thread.                                                       *)

LEMMA Earliest ==
  ASSUME Types, NEW S \in SUBSET Scans, S # {}
  PROVE  /\ Oldest(S) \in S
         /\ \A m \in S : scan[Oldest(S)].stamp <= scan[m].stamp
<1>1. DEFINE T == {scan[n].stamp : n \in S}
<1>2. T # {} /\ T \subseteq Nat
  BY Fields
<1>3. PICK t \in T : \A u \in T : t <= u
  <2>1. PICK t \in T : \A u \in T : ~(<<u, t>> \in OpToRel(<, Nat))
    <3> DEFINE R == OpToRel(<, Nat)
    <3>1. IsWellFoundedOn(R, Nat)
      BY NatLessThanWellFounded
    <3> HIDE DEF R, T
    <3>2. \E t \in T : \A u \in T : ~(<<u, t>> \in R)
      BY <1>2, <3>1, WFMin
    <3> QED  BY <3>2 DEF R
  <2> HIDE DEF T
  <2>2. \A u \in T : ~(u < t)
    BY <1>2, <2>1 DEF OpToRel
  <2> QED  BY <1>2, <2>2
<1>4. PICK n \in S : scan[n].stamp = t
  OBVIOUS
<1>5. \A m \in S : scan[n].stamp <= scan[m].stamp
  BY <1>3, <1>4
<1> QED  BY <1>4, <1>5 DEF Oldest

\* What the drain takes next: the oldest pending row, or else a dead one.
LEMMA Taken ==
  ASSUME Types, Rotates, NEW k \in Kiosks, Rows(k, "pending") \cup Rows(k, "dead") # {}
  PROVE  /\ Rows(k, "pending") # {} =>
              /\ NextRow(k) \in Rows(k, "pending")
              /\ \A m \in Rows(k, "pending") : scan[NextRow(k)].stamp <= scan[m].stamp
         /\ Rows(k, "pending") = {} => NextDead(k) \in Rows(k, "dead")
<1>1. Rows(k, "pending") \in SUBSET Scans /\ Rows(k, "dead") \in SUBSET Scans
  BY DEF Rows
<1>2. CASE Rows(k, "pending") # {}
  BY <1>1, <1>2, Earliest DEF NextRow
<1>3. CASE NeverTried(k) # {}
  <2>1. NeverTried(k) \in SUBSET Scans /\ NeverTried(k) \subseteq Rows(k, "dead")
    BY <1>1 DEF NeverTried
  <2>2. Oldest(NeverTried(k)) \in NeverTried(k)
    BY <1>3, <2>1, Earliest
  <2> QED  BY <1>2, <1>3, <2>1, <2>2 DEF NextDead
<1>4. CASE Rows(k, "pending") = {} /\ NeverTried(k) = {}
  <2>1. tried[k] \in Seq(Scans) /\ DOMAIN tried[k] # {}
    BY <1>4 DEF NeverTried, Types
  <2>2. 1 \in DOMAIN tried[k] /\ Head(tried[k]) = tried[k][1]
    BY <2>1
  <2> QED  BY <1>4, <2>2 DEF NextDead, Rotates
<1> QED  BY <1>2, <1>3, <1>4

LEMMA SendKeeps ==
  ASSUME IInv, NEW k \in Kiosks, Send(k)
  PROVE  IInv'
<1>1. /\ Types /\ PostedIsSent /\ Awaiting /\ DrainsItsOwn /\ Paired /\ Numbered /\ Rotates
      /\ InHandIsLast /\ Timed /\ Overtaken /\ Settled
      /\ Applied /\ RecordedOnce /\ AcknowledgedIsRecorded /\ Door
  BY Parts
<1>2. PICK n \in Rows(k, "pending") \cup Rows(k, "dead"), mode \in {"replay", "dead"} :
        /\ sending' = [sending EXCEPT ![k] = n]
        /\ net' = net \cup {Request(n, mode, scan[n].suspect)}
        /\ mode = "replay" =>
             /\ n \in Rows(k, "pending")
             /\ \A m \in Rows(k, "pending") : scan[n].stamp <= scan[m].stamp
        /\ mode = "dead" => n \in Rows(k, "dead")
  <2>1. CASE Rows(k, "pending") # {}
    <3>1. /\ NextRow(k) \in Rows(k, "pending")
          /\ \A m \in Rows(k, "pending") : scan[NextRow(k)].stamp <= scan[m].stamp
      BY <1>1, <2>1, Taken
    <3>2. sending' = [sending EXCEPT ![k] = NextRow(k)] /\ net' = net \cup {Request(NextRow(k), "replay", scan[NextRow(k)].suspect)}
      BY <2>1 DEF Send
    <3> QED  BY <3>1, <3>2
  <2>2. CASE Rows(k, "pending") = {}
    <3>1. NextDead(k) \in Rows(k, "dead")
      BY <1>1, <2>2, Taken DEF Send
    <3>2. sending' = [sending EXCEPT ![k] = NextDead(k)] /\ net' = net \cup {Request(NextDead(k), "dead", scan[NextDead(k)].suspect)}
      BY <2>2 DEF Send
    <3> QED  BY <3>1, <3>2
  <2> QED  BY <2>1, <2>2
<1>3. /\ n \in Scans /\ scan[n].at = k /\ scan[n].place \in {"pending", "dead"}
      /\ mode = "replay" => scan[n].place = "pending"
      /\ mode = "dead" => scan[n].place = "dead"
  BY <1>2 DEF Rows
<1>4. PICK q : /\ q \in RequestType /\ q.no = n /\ q.mode = mode /\ q.awaited /\ ~TakenUp(q)
               /\ net' = net \cup {q}
  <2>1. scan[n].suspect \in BOOLEAN
    BY <1>1, <1>3, Fields
  <2> QED  BY <1>2, <1>3, <2>1 DEF Request, RequestType, TakenUp
<1>5. /\ \A r \in net : r.awaited /\ r.mode # "live" => scan[r.no].at # k
      /\ sending' \in [Kiosks -> 0 .. MaxScans]
      /\ sending'[k] = n /\ \A j \in Kiosks : j # k => sending'[j] = sending[j]
      /\ UNCHANGED <<reads, scan, tried, clock, unknown, log, effects, ignored, inside, latest,
                     open, parked, missed, collided>>
  <2>1. sending \in [Kiosks -> 0 .. MaxScans] /\ n \in 0 .. MaxScans
    BY <1>1, <1>3, Fields DEF Types, Scans
  <2>2. \A r \in net : r.awaited /\ r.mode # "live" => scan[r.no].at # k
    <3>1. \A r \in net : r.no # 0
      BY <1>1, Fields
    <3> QED  BY <1>1, <3>1 DEF Send, Awaiting
  <2>3. UNCHANGED <<reads, scan, tried, clock, unknown, log, effects, ignored, inside, latest,
                     open, parked, missed, collided>>
    BY DEF Send, server, visits, door
  <2> QED  BY <1>2, <2>1, <2>2, <2>3
<1>17. Held' = Held /\ Door'
  <2>1. \A r \in net' : TakenUp(r) => r \in net
    BY <1>4
  <2>2. Lock(net')
    BY <1>1, <2>1 DEF Door, Begun, Lock
  <2> QED  BY <1>1, <1>5, <2>1, <2>2, DoorStays DEF Trusted
<1> USE <1>1, <1>3, <1>4, <1>5, <1>17, Fields
<1>6. Types'
  BY DEF Types
<1>7. PostedIsSent'
  BY DEF PostedIsSent
<1>8. Awaiting' /\ DrainsItsOwn'
  BY DEF Awaiting, DrainsItsOwn, Rows
<1>9. Paired'
  BY DEF Paired
<1>10. Numbered'
  BY DEF Numbered
<1>11. Rotates'
  BY DEF Rotates, Rows
<1>12. InHandIsLast'
  BY DEF InHandIsLast, Later
<1>13. Timed'
  BY DEF Timed, Later, Trusted
<1>14. Overtaken'
  <2> SUFFICES ASSUME NEW a \in Scans, NEW b \in Scans, Later(a, b), scan[a].place = "pending",
                      Trusted(a), scan[b].who = scan[a].who
               PROVE  b # n /\ scan[b].place = "pending" /\ b \notin effects \cup Held /\ \A r \in net : r.no # b
    BY DEF Overtaken, Later, Trusted
  <2>1. scan[b].place = "pending" /\ b \notin effects \cup Held /\ \A r \in net : r.no # b
    BY DEF Overtaken
  <2>2. b # n
    <3>1. scan[a].stamp < scan[b].stamp
      BY DEF Timed
    <3>2. CASE b = n
      BY <1>2, <2>1, <3>1, <3>2 DEF Rows, Later
    <3> QED  BY <3>2
  <2> QED  BY <2>1, <2>2
<1>15. Settled'
  BY DEF Settled
<1>16. Applied' /\ RecordedOnce' /\ AcknowledgedIsRecorded'
  BY DEF Applied, RecordedOnce, AcknowledgedIsRecorded
<1> QED  BY <1>6, <1>7, <1>8, <1>9, <1>10, <1>11, <1>12, <1>13, <1>14, <1>15, <1>16, <1>17
         DEF IInv, Queue, Order

\* A row that was sent in vain goes to the end of the rotation, or out of it.
LEMMA RotationKept ==
  ASSUME Types, Rotates, NEW k \in Kiosks, NEW n \in Scans
  PROVE  LET out == Without(tried[k], n)
             back == Append(Without(tried[k], n), n) IN
         /\ out \in Seq(Scans) /\ back \in Seq(Scans)
         /\ \A s \in {tried[k], out, back} : \A h, i \in DOMAIN s : s[h] = s[i] => h = i
         /\ \A i \in DOMAIN out : out[i] \in Rows(k, "dead") \ {n}
         /\ \A i \in DOMAIN back : back[i] \in Rows(k, "dead") \cup {n}
<1> DEFINE s == tried[k]
           out == Without(s, n)
           back == Append(out, n)
<1>1. s \in Seq(Scans) /\ Once(s) /\ \A x : Holds(s, x) => x \in Rows(k, "dead")
  BY DEF Types, Rotates, Once, Holds
<1> HIDE DEF s
<1>2. out \in Seq(Scans) /\ Once(out) /\ \A x : Holds(out, x) <=> Holds(s, x) /\ x # n
  BY <1>1, WithoutRow
<1> HIDE DEF out
<1>3. back \in Seq(Scans) /\ Once(back) /\ \A x : Holds(back, x) <=> Holds(out, x) \/ x = n
  BY <1>2, AppendRow
<1> HIDE DEF back
<1>4. \A i \in DOMAIN out : out[i] \in Rows(k, "dead") \ {n}
  BY <1>1, <1>2 DEF Holds
<1>5. \A i \in DOMAIN back : back[i] \in Rows(k, "dead") \cup {n}
  BY <1>1, <1>2, <1>3 DEF Holds
<1>6. \A t \in {s, out, back} : \A h, i \in DOMAIN t : t[h] = t[i] => h = i
  BY <1>1, <1>2, <1>3 DEF Once
<1> QED  BY <1>2, <1>3, <1>4, <1>5, <1>6 DEF s, out, back

LEMMA GiveUpDrainKeeps ==
  ASSUME IInv, NEW k \in Kiosks, GiveUpDrain(k)
  PROVE  IInv'
<1>1. /\ Types /\ PostedIsSent /\ Awaiting /\ DrainsItsOwn /\ Paired /\ Numbered /\ Rotates
      /\ InHandIsLast /\ Timed /\ Overtaken /\ Settled
      /\ Applied /\ RecordedOnce /\ AcknowledgedIsRecorded /\ Door
  BY Parts
<1> DEFINE n == sending[k]
           out == Without(tried[k], n)
           back == Append(Without(tried[k], n), n)
<1>2. n \in Scans /\ scan[n].at = k /\ scan[n].place \in {"pending", "dead"}
  BY <1>1 DEF GiveUpDrain, DrainsItsOwn, Rows
<1>3. /\ sending' \in [Kiosks -> 0 .. MaxScans] /\ sending'[k] = 0
      /\ \A j \in Kiosks : j # k => sending'[j] = sending[j]
  BY <1>1, KioskAssumption DEF GiveUpDrain, Types
<1>4. tried' = [tried EXCEPT ![k] = IF scan[n].place = "dead" THEN back ELSE tried[k]]
  BY DEF GiveUpDrain
<1>5. /\ net' \subseteq RequestType
      /\ \A r \in net : r.no # n => r \in net'
      /\ \A q \in net' : \/ q \in net /\ ~(q.no = n /\ q.awaited)
                         \/ /\ ~q.awaited /\ q.no = n
                            /\ \E r \in net : r.no = n /\ r.awaited /\ q.mode = r.mode
      /\ \A q \in net' : \E r \in net : r.no = q.no /\ r.mode = q.mode /\ r.saw = q.saw
      /\ Lock(net) => Lock(net')
      /\ UNCHANGED <<reads, scan, clock, unknown, log, effects, ignored, inside, latest,
                     open, parked, missed, collided>>
  <2> DEFINE S == {r \in net : r.no = n /\ r.awaited}
  <2>1. S \in SUBSET net /\ Abandon(S)
    BY DEF GiveUpDrain
  <2>2. UNCHANGED <<reads, scan, clock, unknown, log, effects, ignored, inside, latest,
                     open, parked, missed, collided>>
    BY DEF GiveUpDrain, server, visits, door
  <2> QED  BY <1>1, <2>1, <2>2, AbandonLeaves
<1>6. /\ out \in Seq(Scans) /\ back \in Seq(Scans)
      /\ \A s \in {tried[k], out, back} : \A h, i \in DOMAIN s : s[h] = s[i] => h = i
      /\ \A i \in DOMAIN back : back[i] \in Rows(k, "dead") \cup {n}
  <2> HIDE DEF n
  <2>1. Types /\ Rotates /\ n \in Scans
    BY <1>1, <1>2
  <2> QED  BY <2>1, RotationKept, Zenon
<1>7. tried' \in [Kiosks -> Seq(Scans)]
  BY <1>1, <1>4, <1>6 DEF Types
<1> HIDE DEF n, out, back
<1>8. Rotates'
  <2> SUFFICES ASSUME NEW j \in Kiosks
               PROVE  /\ \A i \in DOMAIN tried'[j] : tried'[j][i] \in Rows(j, "dead")
                      /\ \A h, i \in DOMAIN tried'[j] : tried'[j][h] = tried'[j][i] => h = i
    BY <1>5 DEF Rotates, Rows
  <2>1. CASE tried'[j] = tried[j]
    BY <1>1, <2>1 DEF Rotates
  <2>2. CASE tried'[j] # tried[j]
    <3>1. j = k /\ scan[n].place = "dead" /\ tried'[k] = back
      BY <1>1, <1>4, <2>2 DEF Types
    <3>2. n \in Rows(k, "dead")
      BY <1>2, <3>1 DEF Rows
    <3> QED  BY <1>6, <3>1, <3>2
  <2> QED  BY <2>1, <2>2
<1>17. Held' = Held /\ Door'
  BY <1>1, <1>5, DoorStays DEF Trusted, Door, Begun
<1> USE <1>1, <1>2, <1>3, <1>5, <1>17, Fields
<1>9. Types'
  BY <1>7 DEF Types
<1>10. PostedIsSent'
  BY DEF PostedIsSent
<1>11. DrainsItsOwn'
  <2> SUFFICES ASSUME NEW j \in Kiosks, sending'[j] # 0
               PROVE  /\ sending'[j] \in Rows(j, "pending")' \cup Rows(j, "dead")'
                      /\ \E r \in net' : r.no = sending'[j] /\ r.awaited
    BY DEF DrainsItsOwn
  <2>1. /\ sending'[j] \in Rows(j, "pending") \cup Rows(j, "dead")
        /\ \E r \in net : r.no = sending'[j] /\ r.awaited
    BY DEF DrainsItsOwn
  <2> QED  BY <2>1 DEF Rows
<1>12. Paired'
  BY DEF Paired
<1>13. Numbered'
  BY DEF Numbered
<1>14. Order'
  BY DEF Order, InHandIsLast, Timed, Overtaken, Settled, Later, Trusted
<1>15. Applied' /\ RecordedOnce' /\ AcknowledgedIsRecorded'
  BY DEF Applied, RecordedOnce, AcknowledgedIsRecorded
<1>16. Awaiting'
  <2> SUFFICES ASSUME NEW q \in net', q.awaited
               PROVE  IF q.mode = "live" THEN scan[q.no].place = "posted"
                                         ELSE sending'[scan[q.no].at] = q.no
    BY DEF Awaiting
  <2>1. q \in net /\ q.no # n
    OBVIOUS
  <2>2. IF q.mode = "live" THEN scan[q.no].place = "posted" ELSE sending[scan[q.no].at] = q.no
    BY <2>1 DEF Awaiting
  <2>3. scan[q.no].at \in Kiosks /\ (sending[k] = q.no => q.no = n)
    BY <2>1 DEF n
  <2> QED  BY <2>1, <2>2, <2>3
<1> QED  BY <1>8, <1>9, <1>10, <1>11, <1>12, <1>13, <1>14, <1>15, <1>16, <1>17 DEF IInv, Queue

-----------------------------------------------------------------------------
(* The server.                                                             *)

\* What a handler writes.  If it applies or holds the scan, it is the first to
\* record it.
Written(r) ==
  LET n == r.no
      who == scan[r.no].who IN
  /\ log' \in [Scans -> Nat] /\ \A m \in Scans : log'[m] >= log[m] /\ log'[m] <= 1
  /\ parked' \in [Scans -> Nat]
  /\ \A m \in Scans : m # n => log'[m] = log[m] /\ parked'[m] = parked[m]
  /\ ignored' \subseteq Scans /\ ignored \subseteq ignored'
  /\ collided' \subseteq Scans /\ collided \subseteq collided'
  /\ inside' \subseteq People
  /\ latest' \in [People -> Nat] /\ \A p \in People : latest'[p] >= latest[p]
  /\ \A p \in People : p # who => latest'[p] = latest[p] /\ (p \in inside' <=> p \in inside)
  /\ effects \subseteq effects' /\ effects' \subseteq effects \cup {n}
  /\ who \notin unknown => log'[n] > 0 \/ n \in ignored' \cup collided'
  /\ n \in effects' \ effects \/ parked'[n] # parked[n] =>
       who \notin unknown /\ log[n] = 0 /\ r.mode \in {"live", "replay"}
  /\ n \in effects' \ effects =>
       /\ scan[n].stamp = 2 * n => latest'[who] >= 2 * n
       /\ r.mode = "replay" /\ n \notin missed => latest[who] <= scan[n].stamp

\* The time that a handler gives an event.
LEMMA TimesAre ==
  ASSUME Types, Numbered, NEW r \in net, r.mode \in {"live", "replay"}, NEW time \in Times(r)
  PROVE  /\ time \in Nat
         /\ r.mode = "live" => time > 2 * r.no /\ time # 2 * r.no
         /\ r.mode = "replay" => time = scan[r.no].stamp
<1>1. r.no \in Scans /\ r.no \in Nat /\ reads \in Nat /\ scan[r.no].stamp \in Nat
  BY Fields
<1>2. CASE r.mode = "live"
  <2>1. PICK m \in r.no .. reads : time = 2 * m + 1
    BY <1>2 DEF Times
  <2> QED  BY <1>1, <1>2, <2>1
<1>3. CASE r.mode = "replay"
  BY <1>1, <1>3 DEF Times
<1> QED  BY <1>2, <1>3

LEMMA ApplyWrites ==
  ASSUME Types, Numbered, NEW r \in net, r.mode \in {"live", "replay"},
         NEW time \in Times(r), Apply(scan[r.no], r.no, time)
  PROVE  LET n == r.no
             who == scan[r.no].who IN
         /\ inside' \subseteq People /\ effects' = effects \cup {n}
         /\ scan[n].intent = "OUT" => inside' \subseteq inside
         /\ latest' \in [People -> Nat] /\ \A p \in People : latest'[p] >= latest[p]
         /\ \A p \in People : p # who => latest'[p] = latest[p] /\ (p \in inside' <=> p \in inside)
         /\ scan[n].stamp = 2 * n => latest'[who] >= 2 * n
<1> DEFINE n == r.no
           e == scan[r.no]
<1>1. /\ n \in Nat /\ e.who \in People /\ e.stamp \in Nat
      /\ time \in Nat /\ (e.stamp = 2 * n => time >= 2 * n)
  BY Fields, TimesAre
<1>2. inside \subseteq People /\ latest \in [People -> Nat]
  BY DEF Types
<1>3. /\ inside' = IF e.intent = "IN" THEN inside \cup {e.who} ELSE inside \ {e.who}
      /\ latest' = [latest EXCEPT ![e.who] = IF latest[e.who] > time THEN latest[e.who] ELSE time]
      /\ effects' = effects \cup {n}
  BY DEF Apply, Newer
<1> HIDE DEF e, n
<1>4. /\ latest' \in [People -> Nat] /\ \A p \in People : latest'[p] >= latest[p]
      /\ latest'[e.who] >= time /\ \A p \in People : p # e.who => latest'[p] = latest[p]
  BY <1>1, <1>2, <1>3
<1>5. e.stamp = 2 * n => latest'[e.who] >= 2 * n
  <2>1. latest'[e.who] \in Nat
    BY <1>1, <1>4
  <2> QED  BY <1>1, <1>4, <2>1
<1>6. /\ inside' \subseteq People
      /\ e.intent = "OUT" => inside' \subseteq inside
      /\ \A p \in People : p # e.who => (p \in inside' <=> p \in inside)
  BY <1>1, <1>2, <1>3
<1> QED  BY <1>3, <1>4, <1>5, <1>6 DEF e, n

LEMMA LogWrites ==
  ASSUME Types, RecordedOnce, NEW n \in Scans, log[n] = 0, Log(n)
  PROVE  /\ log' \in [Scans -> Nat] /\ log'[n] = 1
         /\ \A m \in Scans : log'[m] >= log[m] /\ log'[m] <= 1 /\ (m # n => log'[m] = log[m])
<1>1. log \in [Scans -> Nat] /\ \A m \in Scans : log[m] <= 1
  BY DEF Types, RecordedOnce
<1>2. log' = [log EXCEPT ![n] = 1]
  BY <1>1 DEF Log
<1> QED  BY <1>1, <1>2

\* Serve applies departures only.
LEMMA ServeWrites ==
  ASSUME Types, Numbered, RecordedOnce, NEW r \in net, Serve(r)
  PROVE  /\ Written(r) /\ parked' = parked /\ inside' \subseteq inside
         /\ effects' # effects \/ latest' # latest => scan[r.no].who \in inside
<1> DEFINE n == r.no
           e == scan[r.no]
<1>1. n \in Scans /\ e.who \in People /\ r.mode \in {"live", "replay", "dead"}
  BY Fields
<1>2. /\ log \in [Scans -> Nat] /\ \A m \in Scans : log[m] <= 1
      /\ ignored \subseteq Scans /\ effects \subseteq Scans /\ inside \subseteq People
      /\ latest \in [People -> Nat] /\ parked \in [Scans -> Nat] /\ collided \subseteq Scans
      /\ parked' = parked /\ collided' = collided
  BY DEF Types, RecordedOnce, Serve, door
<1>3. CASE /\ ~(e.who \notin unknown /\ ~Seen(n))
           /\ UNCHANGED <<log, inside, latest, effects, ignored>>
  <2>1. e.who \notin unknown => log[n] > 0
    BY <1>3 DEF Seen
  <2> QED  BY <1>1, <1>2, <1>3, <2>1 DEF Written
<1>4. CASE e.who \notin unknown /\ ~Seen(n) /\ Debounce(r, e)
  <2>1. ignored' = ignored \cup {n} /\ UNCHANGED <<log, inside, latest, effects>>
    BY <1>4 DEF Debounce, visits
  <2> QED  BY <1>1, <1>2, <2>1 DEF Written
<1>5. CASE e.who \notin unknown /\ ~Seen(n) /\ Record(r, e)
  <2>1. log[n] = 0 /\ ignored' = ignored /\ Log(n)
    BY <1>1, <1>2, <1>5 DEF Seen, Record
  <2>2. /\ log' \in [Scans -> Nat] /\ log'[n] = 1
        /\ \A m \in Scans : log'[m] >= log[m] /\ log'[m] <= 1 /\ (m # n => log'[m] = log[m])
    BY <1>1, <2>1, LogWrites
  <2>4. CASE UNCHANGED visits
    <3>1. UNCHANGED <<inside, latest, effects>>
      BY <2>4 DEF visits
    <3> QED  BY <1>1, <1>2, <2>1, <2>2, <3>1 DEF Written
  <2>5. ASSUME Applicable(r, e), e.intent = "OUT", NEW time \in Times(r), Apply(e, n, time)
        PROVE  /\ Written(r) /\ inside' \subseteq inside /\ e.who \in inside
    <3>1. r.mode \in {"live", "replay"} /\ e.who \in inside
      BY <1>1, <2>5 DEF Applicable, Conflict
    <3>2. r.mode = "replay" => latest[e.who] <= e.stamp
      <4>1. latest[e.who] \in Nat /\ e.stamp \in Nat
        BY <1>1, <1>2, Fields
      <4> QED  BY <2>5, <4>1 DEF Applicable, OutOfOrder
    <3>3. /\ inside' \subseteq People /\ effects' = effects \cup {n}
          /\ inside' \subseteq inside
          /\ latest' \in [People -> Nat] /\ \A p \in People : latest'[p] >= latest[p]
          /\ \A p \in People : p # e.who => latest'[p] = latest[p] /\ (p \in inside' <=> p \in inside)
          /\ e.stamp = 2 * n => latest'[e.who] >= 2 * n
      BY <2>5, <3>1, ApplyWrites
    <3> HIDE DEF e
    <3>4. Written(r)
      BY <1>1, <1>2, <1>5, <2>1, <2>2, <3>1, <3>2, <3>3 DEF Written, e
    <3> QED  BY <3>1, <3>3, <3>4
  <2> QED  BY <1>2, <1>5, <2>4, <2>5 DEF Record, visits
<1> QED  BY <1>3, <1>4, <1>5 DEF Serve, visits

\* An arrival is applied only while a keyholder is in, and held only while it has
\* not been recorded.
LEMMA ArriveWrites ==
  ASSUME Types, Numbered, RecordedOnce, Door, NEW r \in net, Arrive(r)
  PROVE  /\ Written(r)
         /\ scan[r.no].who \notin unknown /\ log[r.no] = 0 /\ r.mode \in {"live", "replay"}
         /\ \/ /\ open /\ parked' = parked
            \/ /\ r.saw = "closed" \/ ~open
               /\ log'[r.no] = 1 /\ \E time \in Times(r) : parked'[r.no] = time
               /\ UNCHANGED <<effects, inside, latest>>
<1> DEFINE n == r.no
           e == scan[r.no]
<1>1. n \in Scans /\ e.who \in People
  BY Fields
<1>2. /\ log \in [Scans -> Nat] /\ \A m \in Scans : log[m] <= 1
      /\ ignored \subseteq Scans /\ effects \subseteq Scans /\ inside \subseteq People
      /\ latest \in [People -> Nat] /\ parked \in [Scans -> Nat] /\ collided \subseteq Scans
      /\ ignored' = ignored
  BY DEF Types, RecordedOnce, Arrive
<1>3. /\ e.who \notin unknown /\ log[n] = 0 /\ r.mode \in {"live", "replay"}
      /\ r.mode = "replay" /\ n \notin missed => latest[e.who] <= e.stamp
  BY DEF Door, Begun, Waiting, Arrive
<1>4. CASE (r.saw = "closed" \/ ~open) /\ Hold(r)
  <2>1. PICK time \in Times(r) : parked' = [parked EXCEPT ![n] = time]
    BY <1>4 DEF Hold
  <2>2. time \in Nat
    BY <1>3, TimesAre
  <2>3. Log(n) /\ UNCHANGED <<effects, inside, latest, collided>>
    BY <1>4 DEF Hold, visits
  <2>4. /\ log' \in [Scans -> Nat] /\ log'[n] = 1
        /\ \A m \in Scans : log'[m] >= log[m] /\ log'[m] <= 1 /\ (m # n => log'[m] = log[m])
    BY <1>1, <1>3, <2>3, LogWrites
  <2>5. /\ parked' \in [Scans -> Nat] /\ parked'[n] = time
        /\ \A m \in Scans : m # n => parked'[m] = parked[m]
    BY <1>1, <1>2, <2>1, <2>2
  <2> HIDE DEF e
  <2>6. Written(r)
    BY <1>1, <1>2, <1>3, <2>3, <2>4, <2>5 DEF Written, e
  <2> QED  BY <1>3, <1>4, <2>3, <2>4, <2>5, <2>6 DEF e
<1>5. CASE open /\ Collide(r)
  <2>1. collided' = collided \cup {n} /\ UNCHANGED <<log, effects, inside, latest, parked>>
    BY <1>5 DEF Collide, visits
  <2> HIDE DEF e
  <2>2. Written(r)
    BY <1>1, <1>2, <1>3, <2>1 DEF Written, e
  <2> QED  BY <1>3, <1>5, <2>1, <2>2 DEF e
<1>6. CASE open /\ SignIn(r)
  <2>1. Log(n) /\ parked' = parked /\ collided' = collided
    BY <1>6 DEF SignIn
  <2>2. /\ log' \in [Scans -> Nat] /\ log'[n] = 1
        /\ \A m \in Scans : log'[m] >= log[m] /\ log'[m] <= 1 /\ (m # n => log'[m] = log[m])
    BY <1>1, <1>3, <2>1, LogWrites
  <2>3. /\ inside' \subseteq People /\ effects' = effects \cup {n}
        /\ latest' \in [People -> Nat] /\ \A p \in People : latest'[p] >= latest[p]
        /\ \A p \in People : p # e.who => latest'[p] = latest[p] /\ (p \in inside' <=> p \in inside)
        /\ e.stamp = 2 * n => latest'[e.who] >= 2 * n
    BY <1>3, <1>6, ApplyWrites DEF SignIn
  <2> HIDE DEF e
  <2>4. Written(r)
    BY <1>1, <1>2, <1>3, <2>1, <2>2, <2>3 DEF Written, e
  <2> QED  BY <1>3, <1>6, <2>1, <2>4 DEF e
<1> QED  BY <1>3, <1>4, <1>5, <1>6 DEF Arrive

\* What becomes of the scan at the kiosk: nothing, if nobody waits any more; it
\* leaves the scanner's hand; or the drain's row is settled or refused.
Answered(r) ==
  LET n == r.no
      ok == scan[r.no].who \notin unknown IN
  /\ Kept
  /\ \A m \in Scans : m # n => scan'[m].place = scan[m].place
  /\ \/ scan'[n].place = scan[n].place /\ ~r.awaited
     \/ /\ scan[n].place = "posted" /\ r.mode = "live" /\ r.awaited
        /\ scan'[n].place = IF ok THEN "done" ELSE "rejected"
     \/ /\ scan[n].place \in {"pending", "dead"} /\ r.mode # "live" /\ r.awaited
        /\ scan'[n].place = IF ok THEN "done" ELSE "dead"
  /\ sending' \in [Kiosks -> 0 .. MaxScans]
  /\ \A k \in Kiosks : sending'[k] =
       IF k = scan[n].at /\ r.awaited /\ r.mode # "live" THEN 0 ELSE sending[k]
  /\ tried' \in [Kiosks -> Seq(Scans)]
  /\ Rotates'

LEMMA AnswerHeard ==
  ASSUME Types, Awaiting, DrainsItsOwn, Rotates, NEW r \in net,
         NEW ok \in BOOLEAN, ok <=> scan[r.no].who \notin unknown, Answer(r, ok)
  PROVE  Answered(r)
<1> DEFINE n == r.no
           k == scan[r.no].at
<1>1. n \in Scans /\ k \in Kiosks /\ r.mode \in {"live", "replay", "dead"} /\ 0 \in 0 .. MaxScans
  BY KioskAssumption, Fields
<1>2. /\ sending \in [Kiosks -> 0 .. MaxScans] /\ tried \in [Kiosks -> Seq(Scans)]
      /\ scan \in [Scans -> ScanType]
  BY DEF Types
<1>3. CASE ~r.awaited
  <2>1. UNCHANGED <<scan, tried, sending>>
    BY <1>3 DEF Answer
  <2>2. Rotates'
    BY <2>1 DEF Rotates, Rows
  <2> QED  BY <1>1, <1>2, <1>3, <2>1, <2>2 DEF Answered, Kept
<1>4. CASE r.awaited /\ r.mode = "live"
  <2>1. HearLive(n, ok) /\ scan[n].place = "posted"
    BY <1>4 DEF Answer, Awaiting
  <2>2. Moved(n, IF ok THEN "done" ELSE "rejected") /\ UNCHANGED <<tried, sending>>
    <3>1. (IF ok THEN "done" ELSE "rejected") \in Places
      BY DEF Places
    <3>2. Move(n, IF ok THEN "done" ELSE "rejected") /\ UNCHANGED <<tried, sending>>
      BY <2>1 DEF HearLive
    <3> QED  BY <1>1, <3>1, <3>2, MoveKeeps
  <2>3. \A j \in Kiosks : Rows(j, "dead") \subseteq Rows(j, "dead")'
    BY <2>1, <2>2 DEF Moved, Kept, Rows
  <2>4. Rotates'
    BY <2>2, <2>3 DEF Rotates
  <2> QED  BY <1>1, <1>2, <1>4, <2>1, <2>2, <2>4 DEF Answered, Moved
<1>5. CASE r.awaited /\ r.mode # "live"
  <2> DEFINE out == Without(tried[k], n)
             back == Append(Without(tried[k], n), n)
             next == IF ok \/ scan[n].place = "pending" THEN out ELSE back
  <2>1. HearDrain(k, n, ok) /\ sending[k] = n
    BY <1>5 DEF Answer, Awaiting
  <2>2. scan[n].place \in {"pending", "dead"} /\ n # 0
    BY <1>1, <2>1, Fields DEF DrainsItsOwn, Rows
  <2>3. Moved(n, IF ok THEN "done" ELSE "dead")
    <3>1. (IF ok THEN "done" ELSE "dead") \in Places
      BY DEF Places
    <3>2. Move(n, IF ok THEN "done" ELSE "dead")
      BY <2>1 DEF HearDrain
    <3> QED  BY <1>1, <3>1, <3>2, MoveKeeps
  <2>4. /\ sending' \in [Kiosks -> 0 .. MaxScans] /\ sending'[k] = 0
        /\ \A j \in Kiosks : j # k => sending'[j] = sending[j]
    BY <1>1, <1>2, <2>1 DEF HearDrain
  <2>6. /\ out \in Seq(Scans) /\ back \in Seq(Scans)
        /\ \A s \in {tried[k], out, back} : \A h, i \in DOMAIN s : s[h] = s[i] => h = i
        /\ \A i \in DOMAIN out : out[i] \in Rows(k, "dead") \ {n}
        /\ \A i \in DOMAIN back : back[i] \in Rows(k, "dead") \cup {n}
    <3> HIDE DEF n, k
    <3> QED  BY <1>1, RotationKept, Zenon
  <2>7. tried' = [tried EXCEPT ![k] = next] /\ next \in Seq(Scans)
    BY <2>1, <2>6, Zenon DEF HearDrain
  <2> HIDE DEF next
  <2>8. /\ tried' \in [Kiosks -> Seq(Scans)]
        /\ tried'[k] = next /\ \A j \in Kiosks : j # k => tried'[j] = tried[j]
    BY <1>1, <1>2, <2>7
  <2> HIDE DEF out, back
  <2>9. \A j \in Kiosks : Rows(j, "dead") \ {n} \subseteq Rows(j, "dead")'
    BY <2>3 DEF Moved, Kept, Rows
  <2>10. Rotates'
    <3> SUFFICES ASSUME NEW j \in Kiosks
                 PROVE  /\ \A i \in DOMAIN tried'[j] : tried'[j][i] \in Rows(j, "dead")'
                        /\ \A h, i \in DOMAIN tried'[j] : tried'[j][h] = tried'[j][i] => h = i
      BY DEF Rotates
    <3>1. CASE j # k
      <4>1. \A i \in DOMAIN tried[j] : tried[j][i] \in Rows(j, "dead") \ {n}
        BY <1>1, <3>1 DEF Rotates, Rows
      <4> QED  BY <2>8, <2>9, <3>1, <4>1 DEF Rotates
    <3>2. CASE j = k /\ (ok \/ scan[n].place = "pending")
      <4>1. tried'[j] = out
        BY <2>8, <3>2 DEF next
      <4> QED  BY <2>6, <2>9, <3>2, <4>1
    <3>3. CASE j = k /\ ~ok /\ scan[n].place # "pending"
      <4>1. tried'[j] = back
        BY <2>8, <3>3 DEF next
      <4>2. n \in Rows(j, "dead")'
        BY <1>1, <2>3, <3>3 DEF Moved, Kept, Rows
      <4> QED  BY <2>6, <2>9, <3>3, <4>1, <4>2
    <3> QED  BY <3>1, <3>2, <3>3
  <2> QED  BY <1>1, <1>5, <2>1, <2>2, <2>3, <2>4, <2>8, <2>10 DEF Answered, Moved
<1> QED  BY <1>3, <1>4, <1>5

\* A scan that a handler is the first to record has not been overtaken at its
\* kiosk.
LEMMA NotOvertaken ==
  ASSUME Types, Numbered, Paired, InHandIsLast, Overtaken, Settled, AcknowledgedIsRecorded,
         NEW r \in net, log[r.no] = 0, scan[r.no].who \notin unknown, r.mode \in {"live", "replay"},
         Ordinary(r.no), NEW m \in effects,
         scan[m].who = scan[r.no].who, scan[m].at = scan[r.no].at
  PROVE  m <= r.no
<1> SUFFICES ASSUME ~(m <= r.no)
             PROVE  FALSE
  OBVIOUS
<1>1. PICK n \in Scans : n = r.no
  BY Fields
<1>2. m \in Scans /\ scan[n].place \in Places /\ n <= reads /\ Trusted(n)
  BY <1>1, Fields DEF Types, Numbered, Ordinary
<1>3. Later(n, m)
  BY <1>1, <1>2, Fields DEF Later, Numbered
<1>4. CASE scan[n].place = "posted"
  BY <1>1, <1>2, <1>3, <1>4 DEF InHandIsLast
<1>5. CASE scan[n].place = "pending"
  BY <1>1, <1>2, <1>3, <1>5 DEF Overtaken
<1>6. CASE scan[n].place = "dead"
  BY <1>1, <1>6 DEF Settled
<1>7. CASE scan[n].place = "done"
  BY <1>1, <1>7 DEF AcknowledgedIsRecorded, Ordinary
<1>8. CASE scan[n].place = "rejected"
  BY <1>1, <1>8 DEF Settled
<1>9. CASE scan[n].place = "unread"
  BY <1>2, <1>9, Fields DEF Numbered
<1>10. scan[n].place # "lost"
  BY <1>1 DEF Ordinary
<1> QED  BY <1>2, <1>4, <1>5, <1>6, <1>7, <1>8, <1>9, <1>10 DEF Places

\* What an answer leaves of the scans.
LEMMA AnswerLeaves ==
  ASSUME Types, Settled, NEW r \in net, Answered(r), Written(r), clock' = clock
  PROVE  \A m \in Scans :
           /\ scan'[m].who = scan[m].who /\ scan'[m].at = scan[m].at /\ scan'[m].stamp = scan[m].stamp
           /\ Ordinary(m)' => Ordinary(m)
<1> TAKE m \in Scans
<1>1. /\ scan'[m].who = scan[m].who /\ scan'[m].at = scan[m].at /\ scan'[m].stamp = scan[m].stamp
      /\ scan'[m].suspect = scan[m].suspect
  BY DEF Answered, Kept
<1>2. scan[m].place = "lost" => scan'[m].place = "lost"
  BY DEF Answered
<1>3. Trusted(m)' => Trusted(m)
  BY <1>1 DEF Trusted
<1>4. ignored \subseteq ignored' /\ collided \subseteq collided'
  BY DEF Written
<1> QED  BY <1>1, <1>2, <1>3, <1>4 DEF Ordinary

\* What is written and answered keeps the invariant, the door's part apart.
LEMMA WrittenKeeps ==
  ASSUME IInv, NEW r \in net, Written(r), Answered(r), net' = net \ {r},
         UNCHANGED <<reads, clock, unknown, open, missed>>, Door'
  PROVE  IInv'
<1>1. /\ Types /\ PostedIsSent /\ Awaiting /\ DrainsItsOwn /\ Paired /\ Numbered /\ Rotates
      /\ InHandIsLast /\ Timed /\ Overtaken /\ Settled
      /\ Applied /\ RecordedOnce /\ AcknowledgedIsRecorded /\ Door
  BY Parts
<1>2. Written(r) /\ Answered(r)
  OBVIOUS
<1>3. net' = net \ {r} /\ UNCHANGED <<reads, clock, unknown, open, missed>>
  OBVIOUS
<1>4. PICK n \in Scans : n = r.no
  BY <1>1, Fields
<1>5. /\ \A m \in Scans : /\ scan'[m].who = scan[m].who /\ scan'[m].at = scan[m].at
                          /\ scan'[m].stamp = scan[m].stamp /\ scan'[m].suspect = scan[m].suspect
      /\ \A m \in Scans : m # n => scan'[m].place = scan[m].place
      /\ \/ scan'[n].place = scan[n].place /\ ~r.awaited
         \/ /\ scan[n].place = "posted" /\ r.mode = "live" /\ r.awaited
            /\ scan'[n].place = IF scan[n].who \notin unknown THEN "done" ELSE "rejected"
         \/ /\ scan[n].place \in {"pending", "dead"} /\ r.mode # "live" /\ r.awaited
            /\ scan'[n].place = IF scan[n].who \notin unknown THEN "done" ELSE "dead"
  BY <1>2, <1>4 DEF Answered, Kept
<1>6. Types'
  BY <1>1, <1>2, <1>3, <1>4 DEF Types, Written, Answered, Kept
<1>20. Held' \subseteq Held \cup {n}
  BY <1>1, <1>2, <1>4 DEF Held, Written
<1>7. PostedIsSent'
  BY <1>1, <1>3, <1>4, <1>5 DEF PostedIsSent
<1>8. DrainsItsOwn'
  <2> SUFFICES ASSUME NEW j \in Kiosks, sending'[j] # 0
               PROVE  /\ sending'[j] \in Rows(j, "pending")' \cup Rows(j, "dead")'
                      /\ \E q \in net' : q.no = sending'[j] /\ q.awaited
    BY DEF DrainsItsOwn
  <2>1. sending'[j] = sending[j] /\ ~(j = scan[n].at /\ r.awaited /\ r.mode # "live")
    BY <1>2, <1>4 DEF Answered
  <2>2. sending[j] \in Rows(j, "pending") \cup Rows(j, "dead")
    BY <1>1, <2>1 DEF DrainsItsOwn
  <2>3. sending[j] = n => ~r.awaited
    BY <1>1, <1>4, <2>1, <2>2 DEF Awaiting, Rows
  <2>4. \E q \in net' : q.no = sending[j] /\ q.awaited
    BY <1>1, <1>3, <1>4, <2>1, <2>3 DEF DrainsItsOwn
  <2> QED  BY <1>5, <2>1, <2>2, <2>3, <2>4 DEF Rows
<1>9. Paired'
  BY <1>1, <1>3, <1>5, Fields DEF Paired
<1>10. Numbered'
  BY <1>1, <1>2, <1>3, <1>4, <1>5, <1>20, Fields DEF Numbered, Written
<1>11. Rotates'
  BY <1>2 DEF Answered
<1>12. InHandIsLast'
  BY <1>1, <1>3, <1>5 DEF InHandIsLast, Later
<1>13. Timed'
  BY <1>1, <1>3, <1>5 DEF Timed, Later, Trusted
<1>14. Overtaken'
  <2> SUFFICES ASSUME NEW h \in Scans, NEW m \in Scans, Later(h, m), scan'[h].place = "pending",
                      Trusted(h), scan[m].who = scan[h].who
               PROVE  scan'[m].place = "pending" /\ m \notin effects' \cup Held' /\ \A q \in net' : q.no # m
    BY <1>3, <1>5 DEF Overtaken, Later, Trusted
  <2>1. scan[h].place = "pending"
    BY <1>5
  <2>2. scan[m].place = "pending" /\ m \notin effects \cup Held /\ \A q \in net : q.no # m
    BY <1>1, <2>1 DEF Overtaken
  <2> QED  BY <1>2, <1>3, <1>4, <1>5, <1>20, <2>2 DEF Written
<1>15. Settled'
  <2> SUFFICES ASSUME NEW q \in net, q # r
               PROVE  /\ scan'[q.no].place # "rejected"
                      /\ scan'[q.no].place = "dead" /\ q.mode # "dead" =>
                           ~q.awaited /\ scan'[q.no].who \in unknown
    BY <1>3 DEF Settled
  <2>1. q.no \in Scans
    BY <1>1, Fields
  <2>2. CASE scan'[q.no].place = scan[q.no].place
    BY <1>1, <1>5, <2>1, <2>2 DEF Settled
  <2>3. CASE q.no = n /\ scan[n].place = "posted" /\ r.mode = "live"
    BY <1>1, <1>4, <2>3 DEF Paired
  <2>4. CASE /\ q.no = n /\ scan[n].place \in {"pending", "dead"} /\ r.mode # "live" /\ r.awaited
             /\ scan'[n].place = IF scan[n].who \notin unknown THEN "done" ELSE "dead"
    <3>1. ~q.awaited
      BY <1>1, <1>4, <2>4 DEF Awaiting, Paired
    <3> QED  BY <1>5, <2>4, <3>1
  <2> QED  BY <1>5, <2>1, <2>2, <2>3, <2>4
<1>16. Applied'
  <2> SUFFICES ASSUME NEW m \in effects', scan'[m].stamp = 2 * m
               PROVE  latest'[scan'[m].who] >= 2 * m
    BY DEF Applied
  <2>1. m \in Scans /\ scan'[m].who = scan[m].who /\ scan[m].stamp = 2 * m
    BY <1>1, <1>2, <1>4, <1>5 DEF Written, Types
  <2>2. CASE m \in effects
    <3>1. /\ latest[scan[m].who] >= 2 * m /\ latest'[scan[m].who] >= latest[scan[m].who]
          /\ scan[m].who \in People /\ m \in Nat
      BY <1>1, <1>2, <2>1, <2>2, Fields DEF Applied, Written
    <3>2. latest[scan[m].who] \in Nat /\ latest'[scan[m].who] \in Nat
      BY <1>1, <1>6, <3>1 DEF Types
    <3> QED  BY <2>1, <3>1, <3>2
  <2>3. CASE m \notin effects
    <3>1. m = n /\ n \in effects' \ effects
      BY <1>2, <1>4, <2>3 DEF Written
    <3> QED  BY <1>2, <1>4, <2>1, <3>1 DEF Written
  <2> QED  BY <2>2, <2>3
<1>17. RecordedOnce'
  BY <1>2 DEF RecordedOnce, Written
<1>18. AcknowledgedIsRecorded'
  <2> SUFFICES ASSUME NEW m \in Scans, scan'[m].place = "done"
               PROVE  log'[m] > 0 \/ m \in ignored' \cup collided'
    BY DEF AcknowledgedIsRecorded
  <2>1. CASE scan[m].place = "done"
    <3>1. log[m] > 0 \/ m \in ignored \cup collided
      BY <1>1, <2>1 DEF AcknowledgedIsRecorded
    <3>2. /\ log[m] \in Nat /\ log'[m] \in Nat /\ log'[m] >= log[m] 
          /\ ignored \subseteq ignored' /\ collided \subseteq collided'
      BY <1>1, <1>2, <1>6 DEF Types, Written
    <3> QED  BY <3>1, <3>2
  <2>2. CASE scan[m].place # "done"
    <3>1. m = n /\ scan[n].who \notin unknown
      BY <1>5, <2>2
    <3> QED  BY <1>2, <1>4, <3>1 DEF Written
  <2> QED  BY <2>1, <2>2
<1>19. Awaiting'
  <2> SUFFICES ASSUME NEW q \in net, q # r, q.awaited
               PROVE  IF q.mode = "live" THEN scan'[q.no].place = "posted"
                                         ELSE sending'[scan'[q.no].at] = q.no
    BY <1>3 DEF Awaiting
  <2>1. q.no \in Scans /\ scan[q.no].at \in Kiosks /\ scan'[q.no].at = scan[q.no].at
    BY <1>1, <1>5, Fields
  <2>2. CASE q.mode = "live"
    BY <1>1, <1>4, <1>5, <2>1, <2>2 DEF Awaiting, Paired
  <2>3. CASE q.mode # "live"
    <3>1. ~(scan[q.no].at = scan[n].at /\ r.awaited /\ r.mode # "live")
      BY <1>1, <1>4, <2>3 DEF Paired
    <3>2. sending[scan[q.no].at] = q.no
      BY <1>1, <2>3 DEF Awaiting
    <3> QED  BY <1>2, <1>4, <2>1, <2>3, <3>1, <3>2 DEF Answered
  <2> QED  BY <2>2, <2>3
<1> QED  BY <1>6, <1>7, <1>8, <1>9, <1>10, <1>11, <1>12, <1>13, <1>14, <1>15, <1>16, <1>17, <1>18, <1>19
         DEF IInv, Queue, Order

LEMMA ServeKeeps ==
  ASSUME IInv, NEW r \in net, Serve(r)
  PROVE  IInv'
<1> DEFINE who == scan[r.no].who
<1>1. /\ Types /\ PostedIsSent /\ Awaiting /\ DrainsItsOwn /\ Paired /\ Numbered /\ Rotates
      /\ InHandIsLast /\ Timed /\ Overtaken /\ Settled
      /\ Applied /\ RecordedOnce /\ AcknowledgedIsRecorded /\ Door
  BY Parts
<1>2. /\ Written(r) /\ parked' = parked /\ inside' \subseteq inside
      /\ effects' # effects \/ latest' # latest => who \in inside
  BY <1>1, ServeWrites
<1>3. Answered(r)
  <2>1. (who \notin unknown) \in BOOLEAN /\ Answer(r, who \notin unknown)
    BY DEF Serve
  <2> QED  BY <1>1, <2>1, AnswerHeard
<1>4. net' = net \ {r} /\ UNCHANGED <<reads, clock, unknown, open, missed>>
  BY DEF Serve, Answer, door
<1>5. \A m \in Scans :
        /\ scan'[m].who = scan[m].who /\ scan'[m].at = scan[m].at /\ scan'[m].stamp = scan[m].stamp
        /\ Ordinary(m)' => Ordinary(m)
  BY <1>1, <1>2, <1>3, <1>4, AnswerLeaves
<1>6. r.no \in Scans /\ who \in People /\ \A q \in net : q.no \in Scans /\ scan[q.no].who \in People
  BY <1>1, Fields
<1>7. \A q \in net' : q \in net /\ (TakenUp(q) => scan[q.no].who # who /\ q.no # r.no)
  BY <1>4 DEF Serve, LockFree
<1>8. Held' = Held /\ \A m \in Held : m \in Scans
  BY <1>2 DEF Held
<1> HIDE DEF who
<1>9. Begun'
  <2>1. Lock(net)'
    BY <1>1, <1>5, <1>6, <1>7 DEF Door, Begun, Lock, TakenUp
  <2>2. \A q \in net' : TakenUp(q) =>
          log'[q.no] = 0 /\ scan'[q.no].who \notin unknown' /\ q.mode \in {"live", "replay"}
    <3>1. \A m \in Scans : m # r.no => log'[m] = log[m]
      BY <1>2 DEF Written
    <3> QED  BY <1>1, <1>4, <1>5, <1>6, <1>7, <3>1 DEF Door, Begun
  <2> QED  BY <2>1, <2>2 DEF Begun, TakenUp
<1>10. OnHold'
  <2> SUFFICES ASSUME NEW m \in Held
               PROVE  log'[m] > 0 /\ (parked'[m] = scan'[m].stamp \/ parked'[m] > 2 * m)
    BY <1>8 DEF OnHold
  <2>1. log[m] > 0 /\ (parked[m] = scan[m].stamp \/ parked[m] > 2 * m)
    BY <1>1 DEF Door, OnHold
  <2>2. log'[m] >= log[m] /\ log[m] \in Nat /\ log'[m] \in Nat
    BY <1>1, <1>2, <1>8 DEF Written, Types
  <2>3. log'[m] > 0
    BY <2>1, <2>2
  <2> QED  BY <1>2, <1>5, <1>8, <2>1, <2>3
<1>11. ASSUME NEW p \in People, p \notin inside
       PROVE  p \notin inside' /\ latest'[p] = latest[p]
  BY <1>2, <1>11 DEF Written, who
<1>12. Waiting'
  <2>1. ASSUME NEW m \in Held \ missed
        PROVE  /\ ~open' /\ scan'[m].who \notin inside'
               /\ parked'[m] = scan'[m].stamp /\ scan'[m].stamp = 2 * m =>
                    latest'[scan'[m].who] <= 2 * m
    <3>1. /\ ~open /\ scan[m].who \notin inside /\ scan[m].who \in People
          /\ parked[m] = scan[m].stamp /\ scan[m].stamp = 2 * m => latest[scan[m].who] <= 2 * m
      BY <1>1, <1>8, Fields DEF Door, Waiting
    <3> QED  BY <1>2, <1>4, <1>5, <1>8, <1>11, <3>1
  <2>2. ASSUME NEW q \in net', TakenUp(q), q.no \notin missed
        PROVE  /\ scan'[q.no].who \notin inside'
               /\ q.saw = "closed" => ~open'
               /\ q.mode = "replay" => latest'[scan'[q.no].who] <= scan'[q.no].stamp
    <3>1. /\ q \in net /\ scan[q.no].who \notin inside
          /\ q.saw = "closed" => ~open
          /\ q.mode = "replay" => latest[scan[q.no].who] <= scan[q.no].stamp
      BY <1>1, <1>7, <2>2 DEF Door, Waiting
    <3> QED  BY <1>4, <1>5, <1>6, <1>11, <3>1
  <2> QED  BY <1>4, <1>8, <2>1, <2>2 DEF Waiting, TakenUp
<1>13. HeldFirst'
  <2> SUFFICES ASSUME NEW n \in Held \ missed, NEW m \in effects', Ordinary(n)',
                      scan'[m].who = scan'[n].who, scan'[m].at = scan'[n].at
               PROVE  m <= n
    BY <1>4, <1>8 DEF HeldFirst
  <2>1. n \in Scans /\ scan[n].who \notin inside /\ Ordinary(n)
    BY <1>1, <1>5, <1>8 DEF Door, Waiting
  <2>2. m \in effects
    <3>1. CASE effects' = effects
      BY <3>1
    <3>2. CASE m = r.no /\ who \in inside
      BY <1>5, <1>6, <2>1, <3>2 DEF who
    <3> QED  BY <1>2, <3>1, <3>2 DEF Written
  <2>3. scan[m].who = scan[n].who /\ scan[m].at = scan[n].at
    BY <1>1, <1>5, <2>1, <2>2 DEF Types
  <2> QED  BY <1>1, <2>1, <2>2, <2>3 DEF Door, HeldFirst
<1> QED  BY <1>2, <1>3, <1>4, <1>9, <1>10, <1>12, <1>13, WrittenKeeps DEF Door

LEMMA ArriveKeeps ==
  ASSUME IInv, NEW r \in net, Arrive(r)
  PROVE  IInv'
<1> DEFINE who == scan[r.no].who
<1>1. /\ Types /\ PostedIsSent /\ Awaiting /\ DrainsItsOwn /\ Paired /\ Numbered /\ Rotates
      /\ InHandIsLast /\ Timed /\ Overtaken /\ Settled
      /\ Applied /\ RecordedOnce /\ AcknowledgedIsRecorded /\ Door
  BY Parts
<1>2. /\ Written(r) /\ who \notin unknown /\ log[r.no] = 0 /\ r.mode \in {"live", "replay"}
      /\ \/ open /\ parked' = parked
         \/ /\ r.saw = "closed" \/ ~open
            /\ log'[r.no] = 1 /\ \E time \in Times(r) : parked'[r.no] = time
            /\ UNCHANGED <<effects, inside, latest>>
  BY <1>1, ArriveWrites
<1>3. Answered(r)
  <2>1. Answer(r, TRUE)
    BY DEF Arrive
  <2> QED  BY <1>1, <1>2, <2>1, AnswerHeard
<1>4. net' = net \ {r} /\ UNCHANGED <<reads, clock, unknown, open, missed>>
  BY DEF Arrive, Answer
<1>5. \A m \in Scans :
        /\ scan'[m].who = scan[m].who /\ scan'[m].at = scan[m].at /\ scan'[m].stamp = scan[m].stamp
        /\ Ordinary(m)' => Ordinary(m)
  BY <1>1, <1>2, <1>3, <1>4, AnswerLeaves
<1>6. /\ r.no \in Scans /\ who \in People /\ TakenUp(r)
      /\ \A q \in net : q.no \in Scans /\ scan[q.no].who \in People
  BY <1>1, Fields DEF Arrive
<1>7. \A q \in net' : q \in net /\ (TakenUp(q) => scan[q.no].who # who /\ q.no # r.no)
  BY <1>1, <1>4, <1>6 DEF Door, Begun, Lock
<1>8. ASSUME NEW m \in Held'
      PROVE  m \in Scans /\ (m # r.no => m \in Held /\ parked'[m] = parked[m])
  BY <1>2, <1>8 DEF Held, Written
<1>9. ASSUME r.no \in Held'
      PROVE  \/ r.no \in Held /\ parked'[r.no] = parked[r.no]
             \/ /\ parked'[r.no] \in Times(r) /\ log'[r.no] = 1
                /\ r.saw = "closed" \/ ~open
                /\ UNCHANGED <<effects, inside, latest>>
  BY <1>2, <1>6, <1>9 DEF Held
<1>10. r.no \notin Held
  BY <1>1, <1>2 DEF Door, OnHold
<1> HIDE DEF who
<1>11. Begun'
  <2>1. Lock(net)'
    BY <1>1, <1>5, <1>6, <1>7 DEF Door, Begun, Lock, TakenUp
  <2>2. \A q \in net' : TakenUp(q) =>
          log'[q.no] = 0 /\ scan'[q.no].who \notin unknown' /\ q.mode \in {"live", "replay"}
    <3>1. \A m \in Scans : m # r.no => log'[m] = log[m]
      BY <1>2 DEF Written
    <3> QED  BY <1>1, <1>4, <1>5, <1>6, <1>7, <3>1 DEF Door, Begun
  <2> QED  BY <2>1, <2>2 DEF Begun, TakenUp
<1>12. OnHold'
  <2> SUFFICES ASSUME NEW m \in Held'
               PROVE  log'[m] > 0 /\ (parked'[m] = scan'[m].stamp \/ parked'[m] > 2 * m)
    BY DEF OnHold
  <2>1. CASE m = r.no
    <3>1. parked'[m] \in Times(r) /\ log'[m] = 1
      BY <1>9, <1>10, <2>1
    <3>2. parked'[m] = scan[m].stamp \/ parked'[m] > 2 * m
      BY <1>1, <1>2, <2>1, <3>1, TimesAre
    <3> QED  BY <1>5, <1>6, <2>1, <3>1, <3>2
  <2>2. CASE m # r.no
    <3>1. m \in Held /\ m \in Scans /\ parked'[m] = parked[m] /\ log'[m] = log[m]
      BY <1>2, <1>8, <2>2 DEF Written
    <3> QED  BY <1>1, <1>5, <3>1 DEF Door, OnHold
  <2> QED  BY <2>1, <2>2
<1>13. ASSUME NEW m \in Held' \ missed
       PROVE  /\ ~open /\ UNCHANGED <<effects, inside, latest>>
              /\ m = r.no => parked'[m] \in Times(r)
  <2>1. CASE m = r.no
    <3>1. r.saw = "closed" => ~open
      BY <1>1, <1>6, <1>13, <2>1 DEF Door, Waiting
    <3> QED  BY <1>9, <1>10, <1>13, <2>1, <3>1
  <2>2. CASE m # r.no
    <3>1. ~open
      BY <1>1, <1>8, <1>13, <2>2 DEF Door, Waiting
    <3> QED  BY <1>2, <2>2, <3>1
  <2> QED  BY <2>1, <2>2
<1>14. Waiting'
  <2>1. ASSUME NEW m \in Held' \ missed
        PROVE  /\ ~open' /\ scan'[m].who \notin inside'
               /\ parked'[m] = scan'[m].stamp /\ scan'[m].stamp = 2 * m =>
                    latest'[scan'[m].who] <= 2 * m
    <3>1. ~open /\ UNCHANGED <<inside, latest>> /\ m \in Scans
      BY <1>8, <1>13, <2>1
    <3>2. CASE m = r.no
      <4>1. /\ scan[m].who \notin inside
            /\ r.mode = "replay" => latest[scan[m].who] <= scan[m].stamp
        BY <1>1, <1>6, <2>1, <3>2 DEF Door, Waiting
      <4>2. r.mode = "live" => parked'[m] # 2 * m
        BY <1>1, <1>2, <1>13, <2>1, <3>2, TimesAre
      <4> QED  BY <1>2, <1>4, <1>5, <3>1, <4>1, <4>2
    <3>3. CASE m # r.no
      <4>1. /\ scan[m].who \notin inside /\ parked'[m] = parked[m]
            /\ parked[m] = scan[m].stamp /\ scan[m].stamp = 2 * m => latest[scan[m].who] <= 2 * m
        BY <1>1, <1>8, <2>1, <3>3 DEF Door, Waiting
      <4> QED  BY <1>4, <1>5, <3>1, <4>1
    <3> QED  BY <3>2, <3>3
  <2>2. ASSUME NEW q \in net', TakenUp(q), q.no \notin missed
        PROVE  /\ scan'[q.no].who \notin inside'
               /\ q.saw = "closed" => ~open'
               /\ q.mode = "replay" => latest'[scan'[q.no].who] <= scan'[q.no].stamp
    <3>1. /\ q \in net /\ scan[q.no].who \notin inside
          /\ q.saw = "closed" => ~open
          /\ q.mode = "replay" => latest[scan[q.no].who] <= scan[q.no].stamp
      BY <1>1, <1>7, <2>2 DEF Door, Waiting
    <3>2. /\ scan[q.no].who \notin inside'
          /\ latest'[scan[q.no].who] = latest[scan[q.no].who]
      BY <1>2, <1>6, <1>7, <2>2, <3>1 DEF Written, who
    <3> QED  BY <1>4, <1>5, <1>6, <3>1, <3>2
  <2> QED  BY <1>4, <2>1, <2>2 DEF Waiting, TakenUp
<1>15. HeldFirst'
  <2> SUFFICES ASSUME NEW n \in Held' \ missed, NEW m \in effects', Ordinary(n)',
                      scan'[m].who = scan'[n].who, scan'[m].at = scan'[n].at
               PROVE  m <= n
    BY <1>4 DEF HeldFirst
  <2>1. n \in Scans /\ m \in effects /\ m \in Scans
    BY <1>1, <1>8, <1>13 DEF Types
  <2>2. Ordinary(n) /\ scan[m].who = scan[n].who /\ scan[m].at = scan[n].at
    BY <1>5, <2>1
  <2>3. CASE n = r.no
    BY <1>1, <1>2, <2>1, <2>2, <2>3, NotOvertaken DEF who
  <2>4. CASE n # r.no
    BY <1>1, <1>8, <2>1, <2>2, <2>4 DEF Door, HeldFirst
  <2> QED  BY <2>3, <2>4
<1> QED  BY <1>2, <1>3, <1>4, <1>11, <1>12, <1>14, <1>15, WrittenKeeps DEF Door

LEMMA TakeUpKeeps ==
  ASSUME IInv, NEW r \in net, TakeUp(r)
  PROVE  IInv'
<1> DEFINE who == scan[r.no].who
<1>1. /\ Types /\ PostedIsSent /\ Awaiting /\ DrainsItsOwn /\ Paired /\ Numbered /\ Rotates
      /\ InHandIsLast /\ Timed /\ Overtaken /\ Settled
      /\ Applied /\ RecordedOnce /\ AcknowledgedIsRecorded /\ Door
  BY Parts
<1>2. PICK q \in RequestType :
        /\ net' = (net \ {r}) \cup {q}
        /\ q.no = r.no /\ q.mode = r.mode /\ q.awaited = r.awaited /\ q.suspect = r.suspect
        /\ q.saw = IF open THEN "open" ELSE "closed"
  <2> DEFINE saw == IF open THEN "open" ELSE "closed"
             q == [r EXCEPT !.saw = saw]
  <2>1. r \in RequestType /\ saw \in {"nothing", "open", "closed"}
    BY <1>1 DEF Types
  <2>2. net' = (net \ {r}) \cup {q}
    BY DEF TakeUp
  <2> HIDE DEF saw
  <2>3. q \in RequestType /\ q.no = r.no /\ q.mode = r.mode /\ q.awaited = r.awaited
        /\ q.suspect = r.suspect /\ q.saw = saw
    BY <2>1 DEF RequestType
  <2> HIDE DEF q
  <2> QED  BY <2>2, <2>3 DEF saw
<1>3. UNCHANGED <<reads, scan, tried, sending, clock, unknown, log, effects, ignored, inside, latest,
                 open, parked, collided>>
  BY DEF TakeUp, kiosk, visits
<1>4. missed' = missed \ {r.no} /\ Held' = Held
  BY <1>3 DEF TakeUp, Held
<1>5. /\ r.no \in Scans /\ who \in People /\ who \notin unknown /\ log[r.no] = 0 /\ who \notin inside
      /\ r.mode \in {"live", "replay"} /\ (r.mode = "replay" => latest[who] <= scan[r.no].stamp)
      /\ \A h \in net : scan[h.no].who = who => ~TakenUp(h)
  <2>1. r.no \in Scans /\ who \in People /\ r.mode \in {"live", "replay", "dead"}
    BY <1>1, Fields
  <2>2. log[r.no] \in Nat /\ latest[who] \in Nat /\ scan[r.no].stamp \in Nat
    BY <1>1, <2>1, Fields DEF Types
  <2>3. log[r.no] = 0 /\ who \notin unknown
    BY <2>2 DEF TakeUp, Seen
  <2>4. r.mode # "dead" /\ who \notin inside /\ (r.mode = "replay" => latest[who] <= scan[r.no].stamp)
    BY <2>2 DEF TakeUp, Applicable, Conflict, OutOfOrder
  <2> QED  BY <2>1, <2>3, <2>4 DEF TakeUp, LockFree
<1>6. r.no \notin Held
  BY <1>1, <1>5 DEF Door, OnHold
<1> USE <1>1, <1>2, <1>3, <1>4, Fields
<1>7. Types'
  BY DEF Types
<1>8. PostedIsSent'
  BY DEF PostedIsSent
<1>9. Awaiting' /\ DrainsItsOwn'
  BY DEF Awaiting, DrainsItsOwn, Rows
<1>10. Paired'
  BY DEF Paired
<1>11. Numbered'
  BY DEF Numbered
<1>12. Rotates'
  BY DEF Rotates, Rows
<1>13. InHandIsLast'
  BY DEF InHandIsLast, Later
<1>14. Timed'
  BY DEF Timed, Later, Trusted
<1>15. Overtaken'
  BY DEF Overtaken, Later, Trusted
<1>16. Settled'
  BY DEF Settled
<1>17. Applied' /\ RecordedOnce' /\ AcknowledgedIsRecorded'
  BY DEF Applied, RecordedOnce, AcknowledgedIsRecorded
<1>18. Begun'
  <2>1. Lock(net')
    BY <1>5 DEF Door, Begun, Lock
  <2>2. Lock(net)'
    BY <2>1 DEF Lock, TakenUp
  <2>3. \A h \in net' : TakenUp(h) =>
          log[h.no] = 0 /\ scan[h.no].who \notin unknown /\ h.mode \in {"live", "replay"}
    BY <1>5 DEF Door, Begun
  <2> QED  BY <2>2, <2>3 DEF Begun, TakenUp
<1>19. OnHold'
  BY DEF Door, OnHold
<1>20. Waiting'
  <2>1. Held \ missed' = Held \ missed
    BY <1>6
  <2>2. ASSUME NEW h \in net', TakenUp(h), h.no \notin missed'
        PROVE  /\ scan[h.no].who \notin inside
               /\ h.saw = "closed" => ~open
               /\ h.mode = "replay" => latest[scan[h.no].who] <= scan[h.no].stamp
    <3>1. CASE h = q
      BY <1>5, <3>1
    <3>2. CASE h # q
      <4>1. h \in net /\ h.no \notin missed
        BY <1>5, <2>2, <3>2
      <4> QED  BY <2>2, <4>1 DEF Door, Waiting
    <3> QED  BY <3>1, <3>2
  <2> QED  BY <2>1, <2>2 DEF Door, Waiting, TakenUp
<1>21. HeldFirst'
  <2>1. Held \ missed' = Held \ missed
    BY <1>6
  <2> QED  BY <2>1 DEF Door, HeldFirst, Ordinary, Trusted
<1> QED  BY <1>7, <1>8, <1>9, <1>10, <1>11, <1>12, <1>13, <1>14, <1>15, <1>16, <1>17, <1>18, <1>19,
            <1>20, <1>21
         DEF IInv, Queue, Order, Door

LEMMA DropKeeps ==
  ASSUME IInv, NEW r \in net, Drop(r)
  PROVE  IInv'
<1>1. /\ Types /\ PostedIsSent /\ Awaiting /\ DrainsItsOwn /\ Paired /\ Numbered /\ Rotates
      /\ InHandIsLast /\ Timed /\ Overtaken /\ Settled
      /\ Applied /\ RecordedOnce /\ AcknowledgedIsRecorded /\ Door
  BY Parts
<1>2. net' = net \ {r} /\ ~r.awaited
  BY DEF Drop
<1>3. UNCHANGED <<reads, scan, tried, sending, clock, unknown, log, effects, ignored, inside, latest,
                 open, parked, missed, collided>>
  BY DEF Drop, server, kiosk, visits, door
<1>4. Held' = Held /\ Door'
  <2>1. Lock(net')
    BY <1>1, <1>2 DEF Door, Begun, Lock
  <2> QED  BY <1>1, <1>2, <1>3, <2>1, DoorStays DEF Trusted
<1> USE <1>1, <1>2, <1>3, <1>4, Fields
<1>5. Types'
  BY DEF Types
<1>6. PostedIsSent'
  BY DEF PostedIsSent
<1>7. Awaiting' /\ DrainsItsOwn'
  BY DEF Awaiting, DrainsItsOwn, Rows
<1>8. Paired'
  BY DEF Paired
<1>9. Numbered'
  BY DEF Numbered
<1>10. Rotates'
  BY DEF Rotates, Rows
<1>11. InHandIsLast'
  BY DEF InHandIsLast, Later
<1>12. Timed'
  BY DEF Timed, Later, Trusted
<1>13. Overtaken'
  BY DEF Overtaken, Later, Trusted
<1>14. Settled'
  BY DEF Settled
<1>15. Applied' /\ RecordedOnce' /\ AcknowledgedIsRecorded'
  BY DEF Applied, RecordedOnce, AcknowledgedIsRecorded
<1> QED  BY <1>4, <1>5, <1>6, <1>7, <1>8, <1>9, <1>10, <1>11, <1>12, <1>13, <1>14, <1>15
         DEF IInv, Queue, Order

LEMMA PutRightKeeps ==
  ASSUME IInv, NEW p \in People, PutRight(p)
  PROVE  IInv'
<1>1. /\ Types /\ PostedIsSent /\ Awaiting /\ DrainsItsOwn /\ Paired /\ Numbered /\ Rotates
      /\ InHandIsLast /\ Timed /\ Overtaken /\ Settled
      /\ Applied /\ RecordedOnce /\ AcknowledgedIsRecorded /\ Door
  BY Parts
<1>2. /\ unknown' = unknown \ {p}
      /\ \A r \in net : scan[r.no].who = p => r.awaited
  BY DEF PutRight
<1>3. UNCHANGED <<reads, scan, tried, sending, clock, net, log, effects, ignored, inside, latest,
                 open, parked, missed, collided>>
  BY DEF PutRight, kiosk, visits, door
<1>4. Held' = Held /\ Door'
  BY <1>1, <1>2, <1>3, DoorStays DEF Trusted, Door, Begun
<1> USE <1>1, <1>2, <1>3, <1>4, Fields
<1>5. Types'
  BY DEF Types
<1>6. PostedIsSent'
  BY DEF PostedIsSent
<1>7. Awaiting' /\ DrainsItsOwn'
  BY DEF Awaiting, DrainsItsOwn, Rows
<1>8. Paired'
  BY DEF Paired
<1>9. Numbered'
  BY DEF Numbered
<1>10. Rotates'
  BY DEF Rotates, Rows
<1>11. InHandIsLast'
  BY DEF InHandIsLast, Later
<1>12. Timed'
  BY DEF Timed, Later, Trusted
<1>13. Overtaken'
  BY DEF Overtaken, Later, Trusted
<1>14. Settled'
  BY DEF Settled
<1>15. Applied' /\ RecordedOnce' /\ AcknowledgedIsRecorded'
  BY DEF Applied, RecordedOnce, AcknowledgedIsRecorded
<1> QED  BY <1>4, <1>5, <1>6, <1>7, <1>8, <1>9, <1>10, <1>11, <1>12, <1>13, <1>14, <1>15
         DEF IInv, Queue, Order

-----------------------------------------------------------------------------
(* Who else opens and closes visits.                                       *)

\* They apply held scans only, and hold none; the rest of the door is each
\* action's own.
LEMMA VisitsKeep ==
  ASSUME IInv, UNCHANGED <<kiosk, net, unknown, log, ignored, collided>>,
         inside' \subseteq People, open' \in BOOLEAN, missed' \subseteq Scans,
         latest' \in [People -> Nat], \A p \in People : latest'[p] >= latest[p],
         parked' \in [Scans -> Nat], \A n \in Scans : parked'[n] \in {0, parked[n]},
         effects \subseteq effects', effects' \subseteq effects \cup Held,
         \A n \in effects' \ effects : scan[n].stamp = 2 * n => latest'[scan[n].who] >= 2 * n,
         Waiting', HeldFirst'
  PROVE  IInv'
<1>1. /\ Types /\ PostedIsSent /\ Awaiting /\ DrainsItsOwn /\ Paired /\ Numbered /\ Rotates
      /\ InHandIsLast /\ Timed /\ Overtaken /\ Settled
      /\ Applied /\ RecordedOnce /\ AcknowledgedIsRecorded /\ Door
  BY Parts
<1>2. UNCHANGED <<reads, scan, tried, sending, clock, net, unknown, log, ignored, collided>>
  BY DEF kiosk
<1>3. Held \subseteq Scans /\ Held' \subseteq Held /\ \A n \in Held' : parked'[n] = parked[n]
  BY DEF Held
<1>4. Types'
  BY <1>1, <1>2, <1>3 DEF Types
<1>5. PostedIsSent' /\ Awaiting' /\ DrainsItsOwn' /\ Paired' /\ Rotates'
  BY <1>1, <1>2 DEF PostedIsSent, Awaiting, DrainsItsOwn, Paired, Rotates, Rows
<1>6. Numbered'
  BY <1>1, <1>2, <1>3 DEF Numbered
<1>7. InHandIsLast' /\ Timed' /\ Settled'
  BY <1>1, <1>2 DEF InHandIsLast, Timed, Settled, Later, Trusted
<1>8. Overtaken'
  BY <1>1, <1>2, <1>3 DEF Overtaken, Later, Trusted
<1>9. Applied'
  <2> SUFFICES ASSUME NEW n \in effects', scan[n].stamp = 2 * n
               PROVE  latest'[scan[n].who] >= 2 * n
    BY <1>2 DEF Applied
  <2>1. CASE n \in effects
    <3>1. n \in Nat /\ scan[n].who \in People
      BY <1>1, <2>1, Fields DEF Types
    <3>2. latest[scan[n].who] \in Nat /\ latest'[scan[n].who] \in Nat
      BY <1>1, <3>1 DEF Types
    <3> QED  BY <1>1, <2>1, <3>1, <3>2 DEF Applied
  <2> QED  BY <2>1
<1>10. RecordedOnce' /\ AcknowledgedIsRecorded'
  BY <1>1, <1>2 DEF RecordedOnce, AcknowledgedIsRecorded
<1>11. Begun' /\ OnHold'
  BY <1>1, <1>2, <1>3 DEF Door, Begun, OnHold, Lock, TakenUp
<1> QED  BY <1>4, <1>5, <1>6, <1>7, <1>8, <1>9, <1>10, <1>11 DEF IInv, Queue, Order, Door

\* A flush passes by, or takes, all that is held and all that is being applied.
LEMMA KeyholderInKeeps ==
  ASSUME IInv, KeyholderIn
  PROVE  IInv'
<1>1. Types /\ Numbered /\ Door
  BY Parts
<1>2. PICK B \in SUBSET Held, T \in SUBSET Held :
        /\ T \subseteq B /\ FirstIn(B, T)
        /\ open' = TRUE
        /\ inside' = inside \cup {scan[n].who : n \in T}
        /\ effects' = effects \cup T
        /\ latest' = [p \in People |->
             IF \E n \in T : scan[n].who = p
               THEN Newer(latest[p], parked[CHOOSE n \in T : scan[n].who = p]) ELSE latest[p]]
        /\ parked' = [n \in Scans |-> IF n \in B THEN 0 ELSE parked[n]]
        /\ missed' = (missed \cup Held \cup {r.no : r \in {q \in net : TakenUp(q)}}) \ B
        /\ UNCHANGED <<kiosk, net, unknown, log, ignored, collided>>
  BY DEF KeyholderIn
<1>3. UNCHANGED <<scan, net, log>>
  BY <1>2 DEF kiosk
<1>4. /\ B \subseteq Scans /\ T \subseteq Scans /\ T \subseteq Held
      /\ \A n \in Scans : scan[n].who \in People
      /\ \A r \in net : r.no \in Scans
      /\ parked \in [Scans -> Nat] /\ latest \in [People -> Nat]
  BY <1>1, Fields DEF Held, Types
<1>5. ASSUME NEW p \in People
      PROVE  /\ latest'[p] \in Nat /\ latest'[p] >= latest[p]
             /\ \A n \in T : scan[n].who = p => latest'[p] >= parked[n]
  <2>1. CASE \E n \in T : scan[n].who = p
    <3> DEFINE c == CHOOSE n \in T : scan[n].who = p
    <3>1. c \in T /\ scan[c].who = p
      BY <2>1
    <3>2. latest'[p] = Newer(latest[p], parked[c])
      BY <1>2, <2>1
    <3> HIDE DEF c
    <3>3. \A n \in T : scan[n].who = p => n = c
      BY <1>2, <3>1 DEF FirstIn
    <3>4. parked[c] \in Nat /\ latest[p] \in Nat
      BY <1>4, <3>1
    <3>5. latest'[p] \in Nat /\ latest'[p] >= latest[p] /\ latest'[p] >= parked[c]
      BY <3>2, <3>4 DEF Newer
    <3> QED  BY <3>3, <3>5
  <2>2. CASE ~\E n \in T : scan[n].who = p
    BY <1>2, <1>4, <2>2
  <2> QED  BY <2>1, <2>2
<1>6. latest' \in [People -> Nat] /\ \A p \in People : latest'[p] >= latest[p]
  <2>1. DOMAIN latest' = People /\ latest' = [p \in People |-> latest'[p]]
    BY <1>2
  <2> QED  BY <1>5, <2>1
<1>7. /\ parked' \in [Scans -> Nat] /\ \A n \in Scans : parked'[n] \in {0, parked[n]}
      /\ Held' = Held \ B
  <2>1. parked' = [n \in Scans |-> IF n \in B THEN 0 ELSE parked[n]]
    BY <1>2
  <2> QED  BY <1>4, <2>1 DEF Held
<1>8. inside' \subseteq People /\ open' \in BOOLEAN /\ missed' \subseteq Scans
  <2>1. {scan[n].who : n \in T} \subseteq People /\ {r.no : r \in {q \in net : TakenUp(q)}} \subseteq Scans
    BY <1>4
  <2>2. Held \subseteq Scans
    BY DEF Held
  <2> QED  BY <1>1, <1>2, <2>1, <2>2 DEF Types
<1>9. ASSUME NEW n \in effects' \ effects, scan[n].stamp = 2 * n
      PROVE  latest'[scan[n].who] >= 2 * n
  <2>1. n \in T /\ n \in Held /\ scan[n].who \in People /\ n \in Scans
    BY <1>2, <1>4
  <2>2. latest'[scan[n].who] >= parked[n] /\ latest'[scan[n].who] \in Nat
    BY <1>5, <2>1
  <2>3. parked[n] = 2 * n \/ parked[n] > 2 * n
    BY <1>1, <1>9, <2>1 DEF Door, OnHold
  <2>4. parked[n] \in Nat /\ n \in Nat
    BY <1>1, <1>4, <2>1, Fields
  <2> QED  BY <2>2, <2>3, <2>4
<1>10. Held' \subseteq missed'
  BY <1>2, <1>7
<1>11. ASSUME NEW r \in net, TakenUp(r)
       PROVE  r.no \in missed'
  <2>1. log[r.no] = 0 /\ \A n \in Held : log[n] > 0
    BY <1>1, <1>11 DEF Door, Begun, OnHold
  <2>2. r.no \notin Held
    BY <2>1
  <2> QED  BY <1>2, <1>11, <2>2
<1>12. Waiting' /\ HeldFirst'
  BY <1>3, <1>10, <1>11 DEF Waiting, HeldFirst, TakenUp
<1>13. effects \subseteq effects' /\ effects' \subseteq effects \cup Held
  BY <1>2, <1>4
<1> QED  BY <1>2, <1>6, <1>7, <1>8, <1>9, <1>12, <1>13, VisitsKeep

LEMMA KeyholdersOutKeeps ==
  ASSUME IInv, KeyholdersOut
  PROVE  IInv'
<1>1. Types /\ Door
  BY Parts
<1>2. /\ open' = FALSE
      /\ UNCHANGED <<kiosk, net, unknown, log, ignored, collided, effects, inside, latest, parked, missed>>
      /\ UNCHANGED <<scan, clock>>
  BY DEF KeyholdersOut, visits, kiosk
<1>3. Held' = Held
  BY <1>2 DEF Held
<1>4. Waiting' /\ HeldFirst'
  BY <1>1, <1>2, <1>3 DEF Door, Waiting, HeldFirst, TakenUp, Ordinary, Trusted
<1>5. /\ inside \subseteq People /\ missed \subseteq Scans /\ latest \in [People -> Nat]
      /\ parked \in [Scans -> Nat] /\ \A p \in People : latest[p] >= latest[p]
  BY <1>1 DEF Types
<1> QED  BY <1>2, <1>4, <1>5, VisitsKeep

\* The visits of one person change, who is none of those who wait at the door.
LEMMA EntryKeeps ==
  ASSUME IInv, NEW p \in People,
         UNCHANGED <<kiosk, net, unknown, log, ignored, collided, effects, open, parked>>,
         latest' = [latest EXCEPT ![p] = Newer(@, Now)],
         inside' \subseteq inside \cup {p}, missed \subseteq missed', missed' \subseteq Scans,
         \A n \in Held \ missed' : scan[n].who # p,
         \A r \in net : TakenUp(r) /\ r.no \notin missed' => scan[r.no].who # p
  PROVE  IInv'
<1>1. Types /\ Door
  BY Parts
<1>2. UNCHANGED <<scan, clock>> /\ Held' = Held
  BY DEF kiosk, Held
<1>3. /\ latest' \in [People -> Nat] /\ \A h \in People : latest'[h] >= latest[h]
      /\ \A h \in People : h # p => latest'[h] = latest[h]
  <2>1. Now \in Nat
    BY <1>1, Fields DEF Now
  <2>2. latest \in [People -> Nat]
    BY <1>1 DEF Types
  <2> QED  BY <2>1, <2>2 DEF Newer
<1>4. /\ \A n \in Held : n \in Scans /\ scan[n].who \in People
      /\ \A r \in net : scan[r.no].who \in People
  BY <1>1, Fields DEF Held
<1>5. Waiting'
  BY <1>1, <1>2, <1>3, <1>4 DEF Door, Waiting, TakenUp
<1>6. HeldFirst'
  BY <1>1, <1>2 DEF Door, HeldFirst, Ordinary, Trusted
<1> QED  BY <1>1, <1>3, <1>5, <1>6, VisitsKeep DEF Types

LEMMA EnterByHandKeeps ==
  ASSUME IInv, NEW p \in People, EnterByHand(p)
  PROVE  IInv'
<1>1. Types
  BY Parts
<1>2. missed' = missed \cup HeldOf(p) /\ HeldOf(p) \subseteq Scans
  BY DEF EnterByHand, HeldOf, Held
<1>3. \A n \in Held \ missed' : scan[n].who # p
  BY <1>2 DEF HeldOf
<1>4. \A r \in net : TakenUp(r) => scan[r.no].who # p
  BY DEF EnterByHand, LockFree
<1>5. missed' \subseteq Scans
  BY <1>1, <1>2 DEF Types
<1>6. /\ UNCHANGED <<kiosk, net, unknown, log, ignored, collided, effects, open, parked>>
      /\ latest' = [latest EXCEPT ![p] = Newer(@, Now)] /\ inside' = inside \cup {p}
  BY DEF EnterByHand
<1> QED  BY <1>2, <1>3, <1>4, <1>5, <1>6, EntryKeeps

LEMMA SignedOutKeeps ==
  ASSUME IInv, NEW p \in People, SignedOut(p)
  PROVE  IInv'
<1>1. Types /\ Door /\ p \in inside
  BY Parts DEF SignedOut
<1>2. /\ UNCHANGED <<kiosk, net, unknown, log, ignored, collided, effects, open, parked, missed>>
      /\ latest' = [latest EXCEPT ![p] = Newer(@, Now)] /\ inside' = inside \ {p}
  BY DEF SignedOut, door
<1>3. \A n \in Held \ missed' : scan[n].who # p
  BY <1>1, <1>2 DEF Door, Waiting
<1>4. \A r \in net : TakenUp(r) /\ r.no \notin missed' => scan[r.no].who # p
  BY <1>1, <1>2 DEF Door, Waiting
<1>5. missed' \subseteq Scans
  BY <1>1, <1>2 DEF Types
<1> QED  BY <1>2, <1>3, <1>4, <1>5, EntryKeeps

LEMMA SettleKeeps ==
  ASSUME IInv, NEW n \in Scans, Settle(n)
  PROVE  IInv'
<1>1. Types /\ Door
  BY Parts
<1>2. /\ parked' = [parked EXCEPT ![n] = 0]
      /\ UNCHANGED <<kiosk, net, unknown, log, ignored, collided, effects, inside, latest, open, missed>>
      /\ UNCHANGED <<scan, clock>>
  BY DEF Settle, visits, kiosk
<1>3. parked' \in [Scans -> Nat] /\ \A m \in Scans : parked'[m] \in {0, parked[m]}
  BY <1>1, <1>2 DEF Types
<1>4. Held' \subseteq Held /\ \A m \in Held' : parked'[m] = parked[m]
  BY <1>3 DEF Held
<1>5. Waiting' /\ HeldFirst'
  BY <1>1, <1>2, <1>4 DEF Door, Waiting, HeldFirst, TakenUp, Ordinary, Trusted
<1> QED  BY <1>1, <1>2, <1>3, <1>5, VisitsKeep DEF Types

-----------------------------------------------------------------------------
(* The whole specification.                                                *)

LEMMA StutterKeeps ==
  ASSUME IInv, UNCHANGED vars
  PROVE  IInv'
<1>1. UNCHANGED <<reads, scan, tried, sending, clock, net, unknown, log, effects, ignored, inside, latest,
                 open, parked, missed, collided>>
  BY DEF vars, kiosk, server, visits, door
<1>5. Held' = Held /\ Door'
  BY <1>1, Parts, DoorStays DEF Trusted, Door, Begun
<1>2. Queue'
  BY <1>1, <1>5 DEF IInv, Queue, Types, PostedIsSent, Awaiting, DrainsItsOwn, Paired, Numbered, Rotates, Rows
<1>3. Order'
  BY <1>1, <1>5 DEF IInv, Order, InHandIsLast, Timed, Overtaken, Settled, Later, Trusted
<1>4. Applied' /\ RecordedOnce' /\ AcknowledgedIsRecorded'
  BY <1>1 DEF IInv, Applied, RecordedOnce, AcknowledgedIsRecorded
<1> QED  BY <1>2, <1>3, <1>4, <1>5 DEF IInv

LEMMA NextKeeps ==
  ASSUME IInv, [Next]_vars
  PROVE  IInv'
<1>1. CASE Scanner
  <2>1. ASSUME NEW b \in Badges, Badge(b[2], b[1], b[3])
        PROVE  IInv'
    <3>1. b[1] \in People /\ b[2] \in Kiosks /\ b[3] \in {"IN", "OUT"}
      BY KioskAssumption
    <3> QED  BY <2>1, <3>1, BadgeKeeps
  <2> QED  BY <1>1, <2>1, GiveUpLiveKeeps DEF Scanner
<1>2. CASE Drain
  BY <1>2, SendKeeps, GiveUpDrainKeeps DEF Drain
<1>3. CASE Server
  BY <1>3, ServeKeeps, TakeUpKeeps, ArriveKeeps, DropKeeps, PutRightKeeps DEF Server
<1>4. CASE \E k \in Kiosks : Crash(k) \/ SetClock(k)
  BY <1>4, CrashKeeps, SetClockKeeps
<1>5. CASE Others
  BY <1>5, KeyholderInKeeps, KeyholdersOutKeeps, EnterByHandKeeps, SignedOutKeeps, SettleKeeps
     DEF Others
<1>6. CASE UNCHANGED vars
  BY <1>6, StutterKeeps
<1> QED  BY <1>1, <1>2, <1>3, <1>4, <1>5, <1>6 DEF Next

LEMMA InitHolds ==
  ASSUME Init
  PROVE  IInv
<1>1. /\ reads = 0 /\ MaxScans \in Nat /\ net = {} /\ effects = {} /\ ignored = {}
      /\ Held = {}
      /\ \A n \in Scans : n \in Nat /\ n > 0
  BY KioskAssumption DEF Init, Scans, Held
<1>2. /\ scan \in [Scans -> ScanType]
      /\ \A n \in Scans : scan[n].place = "unread"
  <2> DEFINE p == CHOOSE p \in People : TRUE
             k == CHOOSE k \in Kiosks : TRUE
  <2>1. p \in People /\ k \in Kiosks
    BY KioskAssumption
  <2>2. scan = [n \in Scans |-> Unread(p, k)]
    BY DEF Init
  <2>3. Unread(p, k) \in ScanType /\ Unread(p, k).place = "unread"
    BY <2>1 DEF Unread, ScanType, Places
  <2> HIDE DEF p, k
  <2> QED  BY <2>2, <2>3
<1>3. /\ tried = [k \in Kiosks |-> <<>>] /\ sending = [k \in Kiosks |-> 0]
      /\ log = [n \in Scans |-> 0]
  BY DEF Init
<1>4. Types
  <2>1. /\ unknown \subseteq People /\ inside \subseteq People /\ open \in BOOLEAN
        /\ missed \subseteq Scans /\ collided \subseteq Scans
    BY KioskAssumption DEF Init
  <2>2. /\ clock \in [Kiosks -> Clocks] /\ latest \in [People -> Nat] /\ parked \in [Scans -> Nat]
    BY DEF Init, Clocks
  <2> QED  BY <1>1, <1>2, <1>3, <2>1, <2>2 DEF Types
<1>5. Queue
  BY <1>1, <1>2, <1>3, <1>4 DEF Queue, PostedIsSent, Awaiting, DrainsItsOwn, Paired, Numbered, Rotates
<1>6. Order
  BY <1>1, <1>2 DEF Order, InHandIsLast, Timed, Overtaken, Settled
<1>7. Door
  BY <1>1 DEF Door, Begun, Lock, OnHold, Waiting, HeldFirst
<1> QED  BY <1>1, <1>2, <1>3, <1>5, <1>6, <1>7 DEF IInv, Applied, RecordedOnce, AcknowledgedIsRecorded

THEOREM Invariant == Spec => []IInv
BY InitHolds, NextKeeps, PTL DEF Spec

\* The types, and that no thread waits for two requests and no drain sends
\* another kiosk's row.
THEOREM TypeCorrect == Spec => []TypeOK
<1>1. IInv => TypeOK
  BY QueueSuffices DEF IInv
<1> QED  BY <1>1, Invariant, PTL

\* No scan is in RawBadgeLog twice, however many requests carried it.
THEOREM Recorded == Spec => []RecordedOnce
<1>1. IInv => RecordedOnce
  BY DEF IInv
<1> QED  BY <1>1, Invariant, PTL

\* No scan leaves a queue before the server has it, took it for a double read, or
\* answered as a duplicate because it ran into a visit that was opened meanwhile.
THEOREM Acknowledged == Spec => []AcknowledgedIsRecorded
<1>1. IInv => AcknowledgedIsRecorded
  BY DEF IInv
<1> QED  BY <1>1, Invariant, PTL

LEMMA OnlyTheseApply ==
  ASSUME [Next]_vars, NEW n \in effects' \ effects
  PROVE  \/ \E r \in net : Serve(r) \/ Arrive(r)
         \/ KeyholderIn
BY DEF Next, Scanner, Drain, Server, Others, Badge, GiveUpLive, Send, GiveUpDrain, TakeUp, Drop,
       PutRight, KeyholdersOut, EnterByHand, SignedOut, Settle, Crash, SetClock,
       vars, kiosk, server, visits, door

\* A scan takes effect as its handler is the first to record it, or out of a hold.
LEMMA Applies ==
  ASSUME IInv, [Next]_vars, NEW n \in effects' \ effects
  PROVE  \/ /\ n \notin Held
            /\ \E r \in net :
                 /\ net' = net \ {r} /\ n = r.no
                 /\ scan[n].who \notin unknown /\ log[n] = 0 /\ r.mode \in {"live", "replay"}
                 /\ r.mode = "replay" /\ n \notin missed => latest[scan[n].who] <= scan[n].stamp
         \/ net' = net /\ n \in Held
<1>1. Types /\ Numbered /\ RecordedOnce /\ Door
  BY Parts
<1>2. CASE KeyholderIn
  BY <1>2 DEF KeyholderIn
<1>3. ASSUME NEW r \in net, Serve(r) \/ Arrive(r)
      PROVE  /\ n \notin Held
             /\ net' = net \ {r} /\ n = r.no
             /\ scan[n].who \notin unknown /\ log[n] = 0 /\ r.mode \in {"live", "replay"}
             /\ r.mode = "replay" /\ n \notin missed => latest[scan[n].who] <= scan[n].stamp
  <2>1. Written(r) /\ net' = net \ {r}
    BY <1>1, <1>3, ServeWrites, ArriveWrites DEF Serve, Arrive, Answer
  <2>2. n = r.no /\ log[n] = 0
    BY <2>1 DEF Written
  <2>3. n \notin Held
    BY <1>1, <2>2 DEF Door, OnHold
  <2> QED  BY <2>1, <2>2, <2>3 DEF Written
<1> QED  BY <1>2, <1>3, OnlyTheseApply

\* Scans of one person at one kiosk take effect in the order they were read, at
\* once or out of a hold; but for a held scan that a flush or an entry by hand
\* passed by.
THEOREM InOrder == Spec => EffectsInOrder
<1> DEFINE Step == \A n \in effects' \ effects :
                     ~scan[n].suspect /\ n \notin ignored \cup collided /\ scan[n].place # "lost"
                     /\ clock[scan[n].at] # "unnoticed" /\ n \notin Held \cap missed =>
                       ~\E m \in effects : /\ scan[m].who = scan[n].who
                                           /\ scan[m].at = scan[n].at
                                           /\ n < m
<1>1. ASSUME IInv, [Next]_vars
      PROVE  Step
  <2> SUFFICES ASSUME NEW n \in effects' \ effects, NEW m \in effects,
                      Ordinary(n), n \notin Held \cap missed,
                      scan[m].who = scan[n].who, scan[m].at = scan[n].at
               PROVE  ~(n < m)
    BY DEF Ordinary, Trusted
  <2>1. /\ Types /\ Paired /\ Numbered /\ InHandIsLast /\ Overtaken /\ Settled
        /\ RecordedOnce /\ AcknowledgedIsRecorded /\ Door
    BY <1>1, Parts
  <2>2. m <= n
    <3>1. CASE n \in Held
      BY <2>1, <3>1 DEF Door, HeldFirst
    <3>2. CASE n \notin Held
      <4>1. PICK r \in net : /\ n = r.no /\ scan[n].who \notin unknown /\ log[n] = 0
                             /\ r.mode \in {"live", "replay"}
        BY <1>1, <3>2, Applies
      <4> QED  BY <2>1, <4>1, NotOvertaken
    <3> QED  BY <3>1, <3>2
  <2>3. m \in Nat /\ n <= reads /\ reads \in Nat /\ n \in Nat
    <3>1. n \in Scans
      BY <1>1, <2>1, Applies, Fields DEF Held
    <3> QED  BY <1>1, <2>1, <3>1, Applies, Fields DEF Numbered, Types
  <2> QED  BY <2>2, <2>3
<1>2. IInv /\ [Next]_vars => [Step]_vars
  BY <1>1
<1> QED  BY <1>2, Invariant, PTL DEF Spec, EffectsInOrder

\* A replay is never applied behind a later scan of its person, of any kiosk, at
\* once or out of a hold; but for one that was passed by meanwhile.
THEOREM InTurn == Spec => ReplayTakesItsTurn
<1> DEFINE Step == \A n \in effects' \ effects :
                     Replayed(n) /\ scan[n].stamp = 2 * n /\ n \notin missed
                     => \A m \in effects :
                          scan[m].who = scan[n].who /\ scan[m].stamp = 2 * m => m < n
<1>1. ASSUME IInv, [Next]_vars
      PROVE  Step
  <2> SUFFICES ASSUME NEW n \in effects' \ effects, Replayed(n), scan[n].stamp = 2 * n,
                      n \notin missed, NEW m \in effects,
                      scan[m].who = scan[n].who, scan[m].stamp = 2 * m
               PROVE  m < n
    OBVIOUS
  <2>1. Types /\ Applied /\ Door
    BY <1>1, Parts
  <2>2. latest[scan[n].who] <= 2 * n /\ n \in Scans
    <3>1. CASE n \in Held
      <4>1. net' = net
        BY <1>1, <3>1, Applies
      <4>2. parked[n] = scan[n].stamp
        BY <4>1 DEF Replayed
      <4> QED  BY <2>1, <3>1, <4>2 DEF Door, Waiting, Held
    <3>2. CASE n \notin Held
      <4>1. PICK r \in net :
              /\ net' = net \ {r} /\ n = r.no
              /\ r.mode = "replay" /\ n \notin missed => latest[scan[n].who] <= scan[n].stamp
        BY <1>1, <3>2, Applies
      <4>2. r.mode = "replay"
        BY <3>2, <4>1 DEF Replayed
      <4> QED  BY <2>1, <4>1, <4>2, Fields
    <3> QED  BY <3>1, <3>2
  <2>3. latest[scan[n].who] >= 2 * m
    BY <2>1 DEF Applied
  <2>4. m \in Nat /\ n \in Nat /\ m # n /\ latest[scan[n].who] \in Nat
    BY <2>1, <2>2, Fields DEF Types
  <2> QED  BY <2>2, <2>3, <2>4
<1>2. IInv /\ [Next]_vars => [Step]_vars
  BY <1>1
<1> QED  BY <1>2, Invariant, PTL DEF Spec, ReplayTakesItsTurn

=============================================================================
