------------------------- MODULE LocalHistoryProofs -------------------------
(***************************************************************************)
(* What holds of the local store under the file service, for every set of   *)
(* writers, readers, ids and inodes, and bodies of any length.              *)
(***************************************************************************)
EXTENDS LocalHistory, SequenceTheorems, TLAPS

----------------------------------------------------------------------------
(* Bytes.                                                                   *)

LEMMA BodyLemma ==
    ASSUME NEW b \in Bodies
    PROVE  /\ b \in Seq(Places) /\ Len(b) \in Nat
           /\ \A k \in 1..Len(b) : b[k] \in Places
<1>1. \A k \in DOMAIN b : b[k] \in Places
  <2>1. {b[k] : k \in DOMAIN b} \in {{d[k] : k \in DOMAIN d} : d \in Bodies}
    OBVIOUS
  <2>. QED
    BY <2>1 DEF Places
<1>2. b \in Seq({b[k] : k \in DOMAIN b} \ {Hole})
  BY BodyAssumption
<1>3. b \in Seq(Places)
  BY <1>1, <1>2, SeqMonotonic
<1>. QED
  BY <1>1, <1>2, <1>3, LenProperties

\* A write puts a piece in its place, and a hole before it when it is behind the
\* end; at the end it adds the piece.
LEMMA WrittenLemma ==
    ASSUME NEW s \in Seq(Places), NEW k \in Nat, NEW x \in Places
    PROVE  LET t == Written(s, k, x) IN
           /\ t \in Seq(Places)
           /\ k = Len(s) => Len(t) = k + 1 /\ t[k + 1] = x /\ \A j \in 1..k : t[j] = s[j]
<1>. DEFINE t == Written(s, k, x)
            n == IF Len(s) < k + 1 THEN k + 1 ELSE Len(s)
<1>1. Len(s) \in Nat /\ DOMAIN s = 1..Len(s) /\ \A j \in 1..Len(s) : s[j] \in Places
  BY LenProperties
<1>2. n \in Nat /\ DOMAIN s \cup 1..(k + 1) = 1..n
  BY <1>1
<1>3. t = [j \in 1..n |-> IF j = k + 1 THEN x ELSE IF j \in DOMAIN s THEN s[j] ELSE Hole]
  BY <1>2 DEF Written
<1>4. \A j \in 1..n : t[j] \in Places
  <2>1. Hole \in Places
    BY DEF Places
  <2>. HIDE DEF t, n
  <2>. QED
    BY <1>1, <1>3, <2>1
<1>5. t \in [1..n -> Places]
  <2>. HIDE DEF n
  <2>. QED
    BY <1>3, <1>4
<1>6. t \in Seq(Places) /\ Len(t) = n
  <2>. HIDE DEF n, t
  <2>. QED
    BY <1>2, <1>5, SeqDef
<1>7. ASSUME k = Len(s)
      PROVE  Len(t) = k + 1 /\ t[k + 1] = x /\ \A j \in 1..k : t[j] = s[j]
  <2>1. n = k + 1
    BY <1>1, <1>7
  <2>2. k + 1 \in 1..n /\ \A j \in 1..k : j # k + 1 /\ j \in 1..n /\ j \in DOMAIN s
    BY <1>1, <1>7, <2>1
  <2>. HIDE DEF t, n
  <2>. QED
    BY <1>3, <1>6, <2>1, <2>2
<1>. QED
  BY <1>6, <1>7

----------------------------------------------------------------------------
(* Slots.                                                                   *)

\* What a request carries while it needs it, and which requests get where.
Shape(c, q, drawn) ==
    /\ q \in Slot
    /\ c \in Writers => q.pc \notin {"fetch", "copy"}
    /\ c \in Readers => q.pc \in {"idle", "fetch", "copy", "done"}
    /\ q.id # None => q.id \in drawn
    /\ q.pc = "idle" => q.id = None /\ q.op = None
    /\ InFlight(q) => q.id # None
    /\ q.pc # "done" => q.reply = None
    /\ q.pc \in {"open", "write", "insert", "describe"} => q.body \in Bodies
    /\ q.pc \in {"open", "write"} => q.op \in {"create", "replace"}
    /\ q.pc \in {"insert", "cleanup"} => q.op = "create"
    /\ q.pc = "describe" => q.op = "replace"
    /\ q.pc \in {"unlink", "erase"} => q.op = "delete"
    /\ q.pc \in {"write", "copy"} => q.fd \in Inodes
    /\ q.pc \notin {"write", "copy"} => q.fd = None
    /\ q.pc = "write" => q.at <= Len(q.body)
    /\ q.pc = "open" => q.at = 0
    /\ q.pc \notin {"cleanup", "done"} => q.unseen = {}
    /\ q.pc \in {"fetch", "copy"} => q.op # "create"

Types ==
    /\ DOMAIN dir \subseteq minted /\ DOMAIN rows \subseteq minted /\ minted \subseteq Ids
    /\ \A i \in DOMAIN dir : dir[i] \in Inodes
    /\ \A i \in DOMAIN rows : rows[i] \in Bodies
    /\ DOMAIN disk = Live /\ \A n \in Live : disk[n] \in Bytes
    /\ DOMAIN slots = Clients /\ \A c \in Clients : Shape(c, slots[c], minted)

Step(c) ==
    \/ c \in Writers /\ WriterStep(c)
    \/ c \in Readers /\ ReaderStep(c)

LEMMA IdleLemma == \A c, drawn : Shape(c, Idle, drawn)
  <1>1. <<>> \in Bytes
    BY EmptySeq DEF Bytes
  <1>. QED
    BY <1>1 DEF Shape, Idle, Slot, InFlight

LEMMA BecomeLemma ==
    ASSUME DOMAIN slots = Clients, NEW c \in Clients, NEW q, Become(c, q)
    PROVE  /\ DOMAIN slots' = Clients /\ slots'[c] = q
           /\ \A d \in Clients : d # c => slots'[d] = slots[d]
BY DEF Become

\* A step of a request changes its own slot, and the directory only under its id.
LEMMA SlotLemma ==
    ASSUME DOMAIN slots = Clients, NEW c \in Clients, Step(c)
    PROVE  /\ DOMAIN slots' = Clients /\ \A d \in Clients : d # c => slots'[d] = slots[d]
           /\ minted \subseteq minted'
BY BecomeLemma
   DEF Step, WriterStep, ReaderStep, BeginCreate, BeginReplace, BeginDelete, Close, Open,
       Write, PutReturns, PutFails, Insert, Describe, Unlink, Erase, BeginRead, BeginRange,
       Fetch, Copy, CopyEnds, CopyFails, Start, Address, Remove, Answer, AnswerLeaving, Goto

\* How the slot of a request looks after each of its steps.
LEMMA ShapeLemma ==
    ASSUME Types, NEW c \in Clients, Step(c)
    PROVE  Shape(c, slots'[c], minted')
<1>. DEFINE q == slots[c]
<1>a. Shape(c, q, minted) /\ minted \subseteq minted' /\ DOMAIN slots = Clients
  BY SlotLemma DEF Types
<1>g. q \in Slot
  BY <1>a DEF Shape
<1>h. /\ Idle \in Slot /\ Idle.fd = None /\ Idle.reply = None /\ Idle.at = 0 /\ Idle.id = None
      /\ Idle.got = <<>>
  BY IdleLemma DEF Idle, Shape
<1>b. \A x : Become(c, x) => slots'[c] = x
  BY <1>a, BecomeLemma
<1>c. \A b \in Bodies : Len(b) \in Nat
  BY BodyLemma
<1>d. ASSUME NEW x, Shape(c, x, minted') PROVE Become(c, x) => Shape(c, slots'[c], minted')
  BY <1>b, <1>d
<1>e. ASSUME NEW reply \in {"ok", "error", "not_found", "missing", "short", "cut"},
             NEW left \in SUBSET {"name", "row"}, AnswerLeaving(c, reply, left), InFlight(q)
      PROVE  Shape(c, slots'[c], minted')
  <2>1. slots'[c] = [q EXCEPT !.pc = "done", !.reply = reply, !.fd = None, !.body = None,
                              !.at = 0, !.unseen = @ \cup left]
    BY <1>b, <1>e DEF AnswerLeaving
  <2>2. slots'[c] \in Slot
    <3>1. 0 \in Nat /\ reply \in {"ok", "error", "not_found", "missing", "short", "cut", None}
      OBVIOUS
    <3>2. q.unseen \cup left \in SUBSET {"name", "row"}
      BY <1>g DEF Slot
    <3>. QED
      BY <1>g, <2>1, <3>1, <3>2, ZenonT(40) DEF Slot
  <2>3. LET x == slots'[c] IN x.pc = "done" /\ x.fd = None /\ x.id = q.id
    BY <1>g, <2>1 DEF Slot
  <2>. QED
    BY <1>a, <1>e, <2>2, <2>3 DEF Shape, InFlight
<1>i. ASSUME NEW reply \in {"ok", "error", "not_found", "missing", "short", "cut"},
             Answer(c, reply), InFlight(q)
      PROVE  Shape(c, slots'[c], minted')
  BY <1>e, <1>i DEF Answer
<1>j. ASSUME NEW reply \in {"ok", "error"}, Remove(c, reply), InFlight(q)
      PROVE  Shape(c, slots'[c], minted')
  <2>1. {"name"} \in SUBSET {"name", "row"}
    OBVIOUS
  <2>. QED
    BY <1>e, <1>i, <1>j, <2>1 DEF Remove
<1>f. ASSUME NEW i \in Ids, NEW op \in {"create", "replace", "delete", "read", "range"}, NEW x,
             Address(c, i, op, x),
             i \in DOMAIN rows => Shape(c, [x EXCEPT !.op = op, !.id = i], minted')
      PROVE  Shape(c, slots'[c], minted')
  <2>1. CASE i \in DOMAIN rows /\ Start(c, [x EXCEPT !.op = op, !.id = i])
    BY <1>d, <1>f, <2>1 DEF Start
  <2>2. ASSUME NEW reply \in {"not_found", "error"},
               Start(c, [Idle EXCEPT !.op = op, !.pc = "done", !.reply = reply])
        PROVE  Shape(c, slots'[c], minted')
    <3>1. slots'[c] = [Idle EXCEPT !.op = op, !.pc = "done", !.reply = reply]
      BY <1>b, <2>2 DEF Start
    <3>2. slots'[c] \in Slot
      BY <1>h, <3>1, Zenon DEF Slot
    <3>3. LET y == slots'[c] IN y.pc = "done" /\ y.fd = None /\ y.id = None
      BY <1>h, <3>1 DEF Slot
    <3>. QED
      BY <3>2, <3>3 DEF Shape, InFlight
  <2>. QED
    BY <1>f, <2>1, <2>2 DEF Address
<1>1. ASSUME c \in Writers, BeginCreate(c) PROVE Shape(c, slots'[c], minted')
  <2>1. PICK i \in Ids \ minted, b \in Bodies :
          /\ Start(c, [Idle EXCEPT !.op = "create", !.pc = "open", !.id = i, !.body = b])
          /\ minted' = minted \cup {i}
    BY <1>1 DEF BeginCreate
  <2>2. slots'[c] = [Idle EXCEPT !.op = "create", !.pc = "open", !.id = i, !.body = b]
    BY <1>b, <2>1 DEF Start
  <2>3. slots'[c] \in Slot
    BY <1>h, <2>2, Zenon DEF Slot
  <2>4. LET y == slots'[c] IN
        /\ y.pc = "open" /\ y.id = i /\ y.op = "create" /\ y.body = b
        /\ y.fd = None /\ y.at = 0 /\ y.reply = None /\ y.unseen = {}
    BY <1>h, <2>2 DEF Slot, Idle
  <2>5. i # None /\ i \in minted'
    BY <2>1, NoneAssumption
  <2>. QED
    BY <1>1, <2>3, <2>4, <2>5, SlotAssumption DEF Shape, InFlight
<1>2. ASSUME c \in Writers, BeginReplace(c) PROVE Shape(c, slots'[c], minted')
  <2>1. PICK i \in Ids, b \in Bodies :
          Address(c, i, "replace", [Idle EXCEPT !.pc = "open", !.body = b])
    BY <1>2 DEF BeginReplace
  <2>2. <<>> \in Bytes
    BY EmptySeq DEF Bytes
  <2>3. i \in DOMAIN rows => Shape(c, [[Idle EXCEPT !.pc = "open", !.body = b] EXCEPT !.op = "replace", !.id = i], minted')
    BY <1>2, <1>a, <2>2, SlotAssumption, NoneAssumption, ZenonT(40) DEF Shape, Slot, Idle, InFlight, Types
  <2>. QED
    BY <1>f, <2>1, <2>3
<1>3. ASSUME c \in Writers, BeginDelete(c) PROVE Shape(c, slots'[c], minted')
  <2>1. PICK i \in Ids : Address(c, i, "delete", [Idle EXCEPT !.pc = "unlink"])
    BY <1>3 DEF BeginDelete
  <2>2. <<>> \in Bytes
    BY EmptySeq DEF Bytes
  <2>3. i \in DOMAIN rows => Shape(c, [[Idle EXCEPT !.pc = "unlink"] EXCEPT !.op = "delete", !.id = i], minted')
    BY <1>3, <1>a, <2>2, SlotAssumption, NoneAssumption, ZenonT(40) DEF Shape, Slot, Idle, InFlight, Types
  <2>. QED
    BY <1>f, <2>1, <2>3
<1>4. ASSUME c \in Readers, BeginRead(c) \/ BeginRange(c) PROVE Shape(c, slots'[c], minted')
  <2>1. ASSUME NEW i \in DOMAIN rows, NEW x \in Slot, x.pc = "fetch", x.id = i,
               x.fd = None, x.reply = None, x.unseen = {}, x.op # "create"
        PROVE  Shape(c, x, minted')
    <3>1. i # None /\ i \in minted'
      BY <1>a, NoneAssumption DEF Types
    <3>. QED
      BY <1>4, <2>1, <3>1, SlotAssumption DEF Shape, InFlight
  <2>2. \A i \in DOMAIN rows : i \in Ids /\ rows[i] \in Bodies /\ Len(rows[i]) \in Nat
    BY <1>c DEF Types
  <2>3. <<>> \in Bytes
    BY EmptySeq DEF Bytes
  <2>4. CASE BeginRead(c)
    <3>1. PICK i \in Ids : Address(c, i, "read", [Idle EXCEPT !.pc = "fetch", !.said = rows[i],
                                           !.upto = Len(rows[i])])
      BY <2>4 DEF BeginRead
    <3>. DEFINE x == [[Idle EXCEPT !.pc = "fetch", !.said = rows[i], !.upto = Len(rows[i])]
                          EXCEPT !.op = "read", !.id = i]
    <3>2. i \in DOMAIN rows =>
              /\ x \in Slot /\ x.pc = "fetch" /\ x.id = i /\ x.fd = None /\ x.reply = None
              /\ x.unseen = {} /\ x.op # "create"
      BY <2>2, <2>3 DEF Slot, Idle
    <3>3. i \in DOMAIN rows => Shape(c, x, minted')
      <4>. HIDE DEF x
      <4>. QED
        BY <2>1, <3>2
    <3>. QED
      BY <1>f, <3>1, <3>3
  <2>5. CASE BeginRange(c)
    <3>1. PICK i \in DOMAIN rows : \E from, upto \in 0..Len(rows[i]) :
              Address(c, i, "range", [Idle EXCEPT !.pc = "fetch", !.said = rows[i],
                                            !.from = from, !.upto = upto])
      BY <2>5 DEF BeginRange
    <3>2. PICK from \in 0..Len(rows[i]), upto \in 0..Len(rows[i]) :
              Address(c, i, "range", [Idle EXCEPT !.pc = "fetch", !.said = rows[i],
                                            !.from = from, !.upto = upto])
      BY <3>1
    <3>. DEFINE x == [[Idle EXCEPT !.pc = "fetch", !.said = rows[i], !.from = from,
                                   !.upto = upto] EXCEPT !.op = "range", !.id = i]
    <3>4. from \in Nat /\ upto \in Nat /\ rows[i] \in Bodies /\ i \in Ids
      BY <2>2
    <3>5. x \in Slot
      BY <1>h, <3>4, Zenon DEF Slot
    <3>6. x.pc = "fetch" /\ x.id = i /\ x.fd = None /\ x.reply = None
          /\ x.unseen = {} /\ x.op # "create"
      BY <1>h DEF Slot, Idle
    <3>7. Shape(c, x, minted')
      <4>. HIDE DEF x
      <4>. QED
        BY <2>1, <3>5, <3>6
    <3>. QED
      BY <1>f, <2>2, <3>2, <3>7
  <2>. QED
    BY <1>4, <2>4, <2>5
<1>5. CASE Close(c)
  BY <1>b, <1>5, IdleLemma DEF Close
<1>6. CASE Open(c)
  <2>1. q.pc = "open"
    BY <1>6 DEF Open
  <2>2. ASSUME NEW n \in Opened(q.id), Become(c, [q EXCEPT !.pc = "write", !.fd = n])
        PROVE  Shape(c, slots'[c], minted')
    <3>1. n \in Inodes
      BY <2>2 DEF Opened, Types
    <3>2. q.body \in Bodies => Len(q.body) \in Nat /\ Len(q.body) >= 0
      BY BodyLemma
    <3>3. slots'[c] = [q EXCEPT !.pc = "write", !.fd = n]
      BY <1>b, <2>2
    <3>4. LET x == slots'[c] IN
          /\ x \in Slot /\ x.pc = "write" /\ x.fd = n /\ x.id = q.id /\ x.op = q.op
          /\ x.body = q.body /\ x.at = q.at /\ x.reply = q.reply /\ x.unseen = q.unseen
      BY <1>g, <3>1, <3>3 DEF Slot
    <3>. QED
      BY <1>a, <2>1, <3>1, <3>2, <3>4 DEF Shape, InFlight
  <2>. QED
    BY <1>6, <1>i, <2>1, <2>2 DEF Open, InFlight
<1>7. CASE Write(c)
  <2>1. slots'[c] = [q EXCEPT !.at = @ + 1] /\ q.pc = "write" /\ q.at < Len(q.body)
    BY <1>7, <1>b DEF Write
  <2>. QED
    BY <1>a, <1>c, <2>1 DEF Shape, Slot, InFlight
<1>8. CASE PutReturns(c)
  <2>. DEFINE pc == IF q.op = "create" THEN "insert" ELSE "describe"
  <2>1. slots'[c] = [q EXCEPT !.fd = None, !.at = 0, !.pc = pc] /\ q.pc = "write"
    BY <1>8, <1>b DEF PutReturns
  <2>a. pc \in {"insert", "describe"}
    OBVIOUS
  <2>b. slots'[c] \in Slot
    <3>1. 0 \in Nat
      OBVIOUS
    <3>. HIDE DEF pc
    <3>. QED
      BY <1>g, <2>1, <2>a, <3>1, Zenon DEF Slot
  <2>2. LET x == slots'[c] IN
        /\ x.pc = pc /\ x.fd = None /\ x.id = q.id /\ x.op = q.op
        /\ x.body = q.body /\ x.reply = q.reply /\ x.unseen = q.unseen
    BY <1>g, <2>1 DEF Slot
  <2>. QED
    BY <1>a, <2>1, <2>b, <2>2 DEF Shape, InFlight
<1>9. CASE Describe(c) \/ CopyEnds(c) \/ CopyFails(c)
  BY <1>9, <1>i DEF Describe, CopyEnds, CopyFails, InFlight
<1>10. CASE PutFails(c) \/ Erase(c)
  BY <1>10, <1>j DEF PutFails, Erase, InFlight
<1>11. CASE Insert(c)
  <2>1. q.pc = "insert" /\ (Answer(c, "ok") \/ Become(c, [q EXCEPT !.pc = "cleanup", !.unseen = {"row"}])
                            \/ Become(c, [q EXCEPT !.pc = "cleanup"]))
    BY <1>11 DEF Insert, Goto
  <2>2. Shape(c, [q EXCEPT !.pc = "cleanup"], minted')
    BY <1>a, <2>1 DEF Shape, Slot, InFlight
  <2>3. Shape(c, [q EXCEPT !.pc = "cleanup", !.unseen = {"row"}], minted')
    <3>. DEFINE x == [q EXCEPT !.pc = "cleanup", !.unseen = {"row"}]
    <3>1. {"row"} \in SUBSET {"name", "row"}
      OBVIOUS
    <3>2. x \in Slot
      BY <1>g, <3>1, ZenonT(40) DEF Slot
    <3>3. /\ x.pc = "cleanup" /\ x.fd = q.fd /\ x.id = q.id /\ x.op = q.op
          /\ x.body = q.body /\ x.reply = q.reply
      BY <1>g DEF Slot
    <3>4. Shape(c, x, minted')
      <4>. HIDE DEF x
      <4>. QED
        BY <1>a, <2>1, <3>2, <3>3 DEF Shape, InFlight
    <3>. QED
      BY <3>4
  <2>. QED
    BY <1>b, <1>i, <2>1, <2>2, <2>3 DEF InFlight
<1>12. CASE Unlink(c)
  <2>1. q.pc = "unlink"
    BY <1>12 DEF Unlink
  <2>2. Goto(c, "erase") => slots'[c] = [q EXCEPT !.pc = "erase"]
    BY <1>b DEF Goto
  <2>3. Shape(c, [q EXCEPT !.pc = "erase"], minted')
    BY <1>a, <2>1 DEF Shape, Slot, InFlight
  <2>. QED
    BY <1>12, <1>i, <2>1, <2>2, <2>3 DEF Unlink, InFlight
<1>13. CASE Fetch(c)
  <2>1. q.pc = "fetch"
    BY <1>13 DEF Fetch
  <2>2. CASE q.id \in DOMAIN dir /\ Become(c, [q EXCEPT !.pc = "copy", !.fd = dir[q.id], !.at = q.from])
    <3>1. slots'[c] = [q EXCEPT !.pc = "copy", !.fd = dir[q.id], !.at = q.from]
      BY <1>b, <2>2
    <3>2. dir[q.id] \in Inodes
      BY <2>2 DEF Types
    <3>. QED
      BY <1>a, <2>1, <3>1, <3>2, ZenonT(40) DEF Shape, Slot, InFlight
  <2>. QED
    BY <1>13, <1>i, <2>1, <2>2 DEF Fetch, InFlight
<1>14. CASE Copy(c)
  <2>. DEFINE x == disk[q.fd][q.at + 1]
  <2>1. slots'[c] = [q EXCEPT !.got = Append(@, x), !.at = @ + 1] /\ q.pc = "copy"
    BY <1>14, <1>b DEF Copy
  <2>2. x \in Places
    <3>1. q.fd \in Live
      BY <1>a, <2>1, NoneAssumption DEF Live, Shape
    <3>2. disk[q.fd] \in Seq(Places) /\ q.at \in Nat /\ q.at < Len(disk[q.fd])
      BY <1>14, <1>a, <3>1 DEF Copy, GoesOn, Types, Shape, Slot, Bytes
    <3>. QED
      BY <3>2, ElementOfSeq, LenProperties
  <2>3. Append(q.got, x) \in Bytes
    BY <1>g, <2>2 DEF Slot, Bytes
  <2>. HIDE DEF x
  <2>a. q.at + 1 \in Nat
    BY <1>g DEF Slot
  <2>b. slots'[c] \in Slot
    BY <1>g, <2>1, <2>3, <2>a, Zenon DEF Slot
  <2>4. LET y == slots'[c] IN
        /\ y.pc = "copy" /\ y.fd = q.fd /\ y.id = q.id /\ y.op = q.op
        /\ y.reply = q.reply /\ y.unseen = q.unseen
    BY <1>g, <2>1, <2>3 DEF Slot
  <2>. QED
    BY <1>a, <2>1, <2>b, <2>4 DEF Shape, InFlight
<1>. QED
  BY <1>1, <1>2, <1>3, <1>4, <1>5, <1>6, <1>7, <1>8, <1>9, <1>10, <1>11, <1>12, <1>13, <1>14
  DEF Step, WriterStep, ReaderStep

----------------------------------------------------------------------------
(* The directory and the disk.                                              *)

LEMMA LiveLemma ==
    ASSUME NEW n
    PROVE  /\ n \in Live <=> \/ \E i \in DOMAIN dir : dir[i] = n
                             \/ n # None /\ \E c \in Clients : slots[c].fd = n
           /\ n \in Live' <=> \/ \E i \in DOMAIN dir' : dir'[i] = n
                              \/ n # None /\ \E c \in Clients : slots'[c].fd = n
<1>1. n \in {dir[i] : i \in DOMAIN dir} <=> \E i \in DOMAIN dir : dir[i] = n
  BY Zenon
<1>2. n \in {slots[c].fd : c \in Clients} <=> \E c \in Clients : slots[c].fd = n
  BY Zenon
<1>3. n \in {dir'[i] : i \in DOMAIN dir'} <=> \E i \in DOMAIN dir' : dir'[i] = n
  BY Zenon
<1>4. n \in {slots'[c].fd : c \in Clients} <=> \E c \in Clients : slots'[c].fd = n
  BY Zenon
<1>. QED
  BY <1>1, <1>2, <1>3, <1>4 DEF Live

----------------------------------------------------------------------------
(* What a step makes of the slot q, field by field: it becomes x.           *)

Same == dir' = dir /\ rows' = rows /\ disk' = disk

\* What has a name or a descriptor keeps its bytes.
Kept == disk' = [n \in Live' |-> disk[n]]

Begins(q, x) ==
    /\ q.pc = "idle" /\ x.fd = None /\ Same
    /\ \/ x.pc = "open" /\ x.op = "create" /\ x.id \in Ids \ minted
       \/ x.pc = "open" /\ x.op = "replace" /\ x.id \in DOMAIN rows
       \/ x.pc = "unlink" /\ x.op = "delete" /\ x.id \in DOMAIN rows
       \/ /\ x.pc = "fetch" /\ x.op \in {"read", "range"} /\ x.id \in DOMAIN rows
          /\ x.said = rows[x.id] /\ x.from <= x.upto /\ x.upto <= Len(x.said)
          /\ x.op = "read" => x.upto = Len(x.said)
          /\ x.got = <<>>
       \/ x.pc = "done" /\ x.op # "create" /\ x.id = None

Closes(q, x) == q.pc = "done" /\ x.pc = "idle" /\ x.op = None /\ x.id = None /\ x.fd = None /\ Same

Asked(q, x) == x.op = q.op /\ x.id = q.id

Opens(q, x) ==
    /\ q.pc = "open" /\ x.pc = "write" /\ Asked(q, x)
    /\ x.fd \in Opened(q.id) /\ dir' = With(dir, q.id, x.fd) /\ rows' = rows
    /\ disk' = [n \in Live' |-> Create(disk, x.fd)[n]]
    /\ x.body = q.body /\ x.at = q.at

Writes(q, x) ==
    /\ q.pc = "write" /\ x.pc = "write" /\ Asked(q, x)
    /\ dir' = dir /\ rows' = rows
    /\ disk' = [disk EXCEPT ![q.fd] = Written(@, q.at, q.body[q.at + 1])]
    /\ x.fd = q.fd /\ x.body = q.body /\ q.at < Len(q.body) /\ x.at = q.at + 1

Returns(q, x) ==
    /\ q.pc = "write" /\ q.at = Len(q.body) /\ x.pc \in {"insert", "describe"} /\ Asked(q, x)
    /\ dir' = dir /\ rows' = rows /\ Kept
    /\ x.fd = None /\ x.body = q.body

Records(q, x) ==
    /\ q.pc = "insert" \/ (q.pc = "describe" /\ q.id \in DOMAIN rows)
    /\ \/ x.pc = "done" /\ x.reply = "ok"
       \/ q.pc = "insert" /\ x.pc = "cleanup" /\ "row" \in x.unseen
       \/ q.pc = "describe" /\ x.pc = "done" /\ x.reply = "error"
    /\ Asked(q, x)
    /\ dir' = dir /\ rows' = With(rows, q.id, q.body) /\ disk' = disk
    /\ x.fd = None

Unlinks(q, x) ==
    /\ q.pc = "unlink" /\ x.pc \in {"erase", "done"} /\ Asked(q, x)
    /\ dir' = dir /\ rows' = Without(rows, q.id) /\ disk' = disk
    /\ x.fd = None

Removes(q, x) ==
    /\ q.pc \in {"write", "erase", "cleanup"} /\ x.pc = "done" /\ Asked(q, x)
    /\ dir' = Without(dir, q.id) \/ (dir' = dir /\ "name" \in x.unseen)
    /\ rows' = rows /\ Kept /\ q.unseen \subseteq x.unseen
    /\ x.fd = None /\ (x.reply = "ok" => q.pc = "erase")

GivesUp(q, x) ==
    /\ q.pc \in {"open", "insert", "describe", "unlink"} /\ Asked(q, x) /\ Same
    /\ x.pc = (IF q.pc = "insert" THEN "cleanup" ELSE "done") /\ x.reply # "ok"
    /\ x.fd = None

Fetches(q, x) ==
    /\ q.pc = "fetch" /\ x.pc = "copy" /\ Asked(q, x) /\ Same
    /\ q.id \in DOMAIN dir /\ x.fd = dir[q.id] /\ x.at = q.from
    /\ x.said = q.said /\ x.from = q.from /\ x.upto = q.upto /\ x.got = q.got

Misses(q, x) ==
    /\ q.pc = "fetch" /\ x.pc = "done" /\ Asked(q, x) /\ Same
    /\ x.fd = None
    /\ \/ q.id \notin DOMAIN dir /\ x.reply = "missing"
       \/ x.reply = "error" /\ x.got = q.got

Copies(q, x) ==
    /\ q.pc = "copy" /\ x.pc = "copy" /\ Asked(q, x) /\ Same
    /\ GoesOn(q) /\ x.fd = q.fd /\ x.at = q.at + 1
    /\ x.said = q.said /\ x.from = q.from /\ x.upto = q.upto
    /\ x.got = Append(q.got, disk[q.fd][q.at + 1])

Ends(q, x) ==
    /\ q.pc = "copy" /\ x.pc = "done" /\ Asked(q, x)
    /\ dir' = dir /\ rows' = rows /\ Kept
    /\ x.fd = None
    /\ \/ x.reply = "cut"
       \/ ~GoesOn(q) /\ x.reply = (IF q.op = "range" /\ q.at < q.upto THEN "short" ELSE "ok")
    /\ x.said = q.said /\ x.from = q.from /\ x.upto = q.upto /\ x.got = q.got

Moves(q, x) ==
    \/ Begins(q, x) \/ Closes(q, x) \/ Opens(q, x) \/ Writes(q, x) \/ Returns(q, x)
    \/ Records(q, x) \/ Unlinks(q, x) \/ Removes(q, x) \/ GivesUp(q, x)
    \/ Fetches(q, x) \/ Misses(q, x) \/ Copies(q, x) \/ Ends(q, x)

LEMMA AnswerLemma ==
    ASSUME NEW c \in Clients, slots[c] \in Slot, DOMAIN slots = Clients, NEW reply, NEW left,
           AnswerLeaving(c, reply, left)
    PROVE  LET q == slots[c]
               x == slots'[c] IN
           /\ x.pc = "done" /\ x.reply = reply /\ x.fd = None /\ Asked(q, x)
           /\ x.said = q.said /\ x.from = q.from /\ x.upto = q.upto /\ x.got = q.got
           /\ x.unseen = q.unseen \cup left
<1>. DEFINE q == slots[c]
<1>1. slots'[c] = [q EXCEPT !.pc = "done", !.reply = reply, !.fd = None, !.body = None, !.at = 0,
                            !.unseen = @ \cup left]
  BY BecomeLemma DEF AnswerLeaving
<1>. QED
  BY <1>1 DEF Slot, Asked

\* Every step of a request is one of these moves.
LEMMA MoveLemma ==
    ASSUME Types, NEW c \in Clients, Step(c)
    PROVE  Moves(slots[c], slots'[c])
<1>. DEFINE q == slots[c]
            x == slots'[c]
<1>a. q \in Slot /\ Shape(c, q, minted) /\ DOMAIN slots = Clients
  BY DEF Types, Shape
<1>b. \A y : Become(c, y) => x = y
  BY <1>a, BecomeLemma
<1>c. \A b \in Bodies : Len(b) \in Nat
  BY BodyLemma
<1>d. \A i \in DOMAIN rows : rows[i] \in Bodies
  BY DEF Types
<1>e. \A reply : Answer(c, reply) =>
          /\ x.pc = "done" /\ x.reply = reply /\ x.fd = None /\ Asked(q, x)
          /\ x.said = q.said /\ x.from = q.from /\ x.upto = q.upto /\ x.got = q.got
  BY <1>a, AnswerLemma DEF Answer
<1>f. ASSUME NEW i, NEW op, op # "create", NEW y, Address(c, i, op, y)
      PROVE  /\ q.pc = "idle" /\ Same
             /\ \/ i \in DOMAIN rows /\ x = [y EXCEPT !.op = op, !.id = i]
                \/ Begins(q, x)
  <2>1. \A reply : LET z == [Idle EXCEPT !.op = op, !.pc = "done", !.reply = reply] IN
        z.pc = "done" /\ z.op = op /\ z.id = None /\ z.fd = None
    BY DEF Idle
  <2>2. CASE i \in DOMAIN rows /\ Start(c, [y EXCEPT !.op = op, !.id = i])
    BY <1>b, <1>f, <2>2 DEF Address, Start, Same
  <2>3. ASSUME NEW reply, Start(c, [Idle EXCEPT !.op = op, !.pc = "done", !.reply = reply])
        PROVE  q.pc = "idle" /\ Same /\ Begins(q, x)
    <3>1. q.pc = "idle" /\ x = [Idle EXCEPT !.op = op, !.pc = "done", !.reply = reply]
      BY <1>b, <2>3 DEF Start
    <3>2. Same
      BY <1>f DEF Address, Same
    <3>3. x.pc = "done" /\ x.op = op /\ x.id = None /\ x.fd = None
      BY <2>1, <3>1
    <3>. QED
      BY <1>f, <3>1, <3>2, <3>3 DEF Begins
  <2>. QED
    BY <1>f, <2>2, <2>3 DEF Address
<1>1. ASSUME BeginCreate(c) PROVE Begins(q, x)
  <2>1. PICK i \in Ids \ minted, b \in Bodies :
          Start(c, [Idle EXCEPT !.op = "create", !.pc = "open", !.id = i, !.body = b])
    BY <1>1 DEF BeginCreate
  <2>2. x = [Idle EXCEPT !.op = "create", !.pc = "open", !.id = i, !.body = b] /\ q.pc = "idle"
    BY <1>b, <2>1 DEF Start
  <2>3. x.pc = "open" /\ x.op = "create" /\ x.id = i /\ x.fd = None
    BY <2>2 DEF Idle
  <2>. QED
    BY <1>1, <2>2, <2>3 DEF Begins, Same, BeginCreate
<1>2. ASSUME BeginReplace(c) PROVE Begins(q, x)
  <2>1. PICK i \in Ids, b \in Bodies :
          Address(c, i, "replace", [Idle EXCEPT !.pc = "open", !.body = b])
    BY <1>2 DEF BeginReplace
  <2>2. CASE i \in DOMAIN rows
             /\ x = [[Idle EXCEPT !.pc = "open", !.body = b] EXCEPT !.op = "replace", !.id = i]
    <3>1. q.pc = "idle" /\ Same
      BY <1>f, <2>1
    <3>2. x.pc = "open" /\ x.op = "replace" /\ x.id = i /\ x.fd = None
      BY <2>2 DEF Idle
    <3>. QED
      BY <2>2, <3>1, <3>2 DEF Begins
  <2>. QED
    BY <1>f, <2>1, <2>2
<1>3. ASSUME BeginDelete(c) PROVE Begins(q, x)
  <2>1. PICK i \in Ids : Address(c, i, "delete", [Idle EXCEPT !.pc = "unlink"])
    BY <1>3 DEF BeginDelete
  <2>2. CASE i \in DOMAIN rows
             /\ x = [[Idle EXCEPT !.pc = "unlink"] EXCEPT !.op = "delete", !.id = i]
    <3>1. q.pc = "idle" /\ Same
      BY <1>f, <2>1
    <3>2. x.pc = "unlink" /\ x.op = "delete" /\ x.id = i /\ x.fd = None
      BY <2>2 DEF Idle
    <3>. QED
      BY <2>2, <3>1, <3>2 DEF Begins
  <2>. QED
    BY <1>f, <2>1, <2>2
<1>4. ASSUME BeginRead(c) PROVE Begins(q, x)
  <2>1. PICK i \in Ids : Address(c, i, "read", [Idle EXCEPT !.pc = "fetch", !.said = rows[i],
                                         !.upto = Len(rows[i])])
    BY <1>4 DEF BeginRead
  <2>2. CASE i \in DOMAIN rows
             /\ x = [[Idle EXCEPT !.pc = "fetch", !.said = rows[i], !.upto = Len(rows[i])]
                        EXCEPT !.op = "read", !.id = i]
    <3>1. q.pc = "idle" /\ Same
      BY <1>f, <2>1
    <3>2. /\ x.pc = "fetch" /\ x.op = "read" /\ x.id = i /\ x.fd = None
          /\ x.said = rows[i] /\ x.upto = Len(rows[i]) /\ x.from = 0 /\ x.got = <<>>
      BY <2>2 DEF Idle
    <3>3. x.from <= x.upto /\ x.upto <= Len(x.said)
      BY <1>c, <1>d, <2>2, <3>2
    <3>. QED
      BY <2>2, <3>1, <3>2, <3>3 DEF Begins
  <2>. QED
    BY <1>f, <2>1, <2>2
<1>5. ASSUME BeginRange(c) PROVE Begins(q, x)
  <2>1. PICK i \in DOMAIN rows : \E from, upto \in 0..Len(rows[i]) :
            from < upto /\
            Address(c, i, "range", [Idle EXCEPT !.pc = "fetch", !.said = rows[i],
                                          !.from = from, !.upto = upto])
    BY <1>5 DEF BeginRange
  <2>2. PICK from \in 0..Len(rows[i]), upto \in 0..Len(rows[i]) :
            from < upto /\
            Address(c, i, "range", [Idle EXCEPT !.pc = "fetch", !.said = rows[i],
                                          !.from = from, !.upto = upto])
    BY <2>1
  <2>3. q.pc = "idle" /\ Same
    BY <1>f, <2>2
  <2>4. CASE x = [[Idle EXCEPT !.pc = "fetch", !.said = rows[i], !.from = from, !.upto = upto]
                     EXCEPT !.op = "range", !.id = i]
    <3>1. /\ x.pc = "fetch" /\ x.op = "range" /\ x.id = i /\ x.fd = None
          /\ x.said = rows[i] /\ x.upto = upto /\ x.from = from /\ x.got = <<>>
      BY <2>4 DEF Idle
    <3>2. x.from <= x.upto /\ x.upto <= Len(x.said)
      BY <1>c, <1>d, <2>2, <3>1
    <3>. QED
      BY <2>3, <3>1, <3>2 DEF Begins
  <2>. QED
    BY <1>f, <2>2, <2>4
<1>6. ASSUME Close(c) PROVE Closes(q, x)
  BY <1>6, <1>b DEF Close, Closes, Same, Idle
<1>7. ASSUME Open(c) PROVE Opens(q, x) \/ GivesUp(q, x)
  <2>1. CASE \E n \in Opened(q.id) :
                /\ dir' = With(dir, q.id, n)
                /\ Become(c, [q EXCEPT !.pc = "write", !.fd = n])
                /\ DiskIs(Create(disk, n))
    <3>1. PICK n \in Opened(q.id) :
            /\ dir' = With(dir, q.id, n)
            /\ x = [q EXCEPT !.pc = "write", !.fd = n]
            /\ DiskIs(Create(disk, n))
      BY <1>b, <2>1
    <3>2. /\ x.pc = "write" /\ x.fd = n /\ x.id = q.id /\ x.op = q.op
          /\ x.body = q.body /\ x.at = q.at
      BY <1>a, <3>1 DEF Slot
    <3>. QED
      BY <1>7, <3>1, <3>2 DEF Open, Opens, Asked, DiskIs
  <2>2. CASE Answer(c, "error") /\ UNCHANGED <<dir, disk>>
    <3>1. q.pc = "open" /\ rows' = rows
      BY <1>7 DEF Open
    <3>2. x.pc = "done" /\ x.reply = "error" /\ x.fd = None /\ Asked(q, x)
      BY <1>e, <2>2
    <3>. QED
      BY <2>2, <3>1, <3>2 DEF GivesUp, Same
  <2>. QED
    BY <1>7, <2>1, <2>2 DEF Open
<1>8. ASSUME Write(c) PROVE Writes(q, x)
  <2>1. x = [q EXCEPT !.at = @ + 1]
    BY <1>8, <1>b DEF Write
  <2>2. /\ x.pc = q.pc /\ x.fd = q.fd /\ x.id = q.id /\ x.op = q.op
        /\ x.body = q.body /\ x.at = q.at + 1
    BY <1>a, <2>1 DEF Slot
  <2>. QED
    BY <1>8, <2>2 DEF Write, Writes, Asked
<1>9. ASSUME PutReturns(c) PROVE Returns(q, x)
  <2>. DEFINE pc == IF q.op = "create" THEN "insert" ELSE "describe"
  <2>1. x = [q EXCEPT !.fd = None, !.at = 0, !.pc = pc]
    BY <1>9, <1>b DEF PutReturns
  <2>2. x.pc = pc /\ x.fd = None /\ x.id = q.id /\ x.op = q.op /\ x.body = q.body
    BY <1>a, <2>1 DEF Slot
  <2>. QED
    BY <1>9, <2>2 DEF PutReturns, Returns, Asked, DiskIs, Kept
<1>g. ASSUME NEW reply, Remove(c, reply), q.pc \in {"write", "erase", "cleanup"},
             reply = "ok" => q.pc = "erase"
      PROVE  Removes(q, x)
  <2>1. CASE dir' = RemoveName(q.id) /\ Answer(c, reply)
    <3>1. x.unseen = q.unseen \cup {}
      BY <1>a, <2>1, AnswerLemma DEF Answer
    <3>. QED
      BY <1>e, <1>g, <2>1, <3>1 DEF Remove, Removes, RemoveName, DiskIs, Kept
  <2>2. CASE UNCHANGED dir /\ AnswerLeaving(c, reply, {"name"})
    <3>1. /\ x.unseen = q.unseen \cup {"name"}
          /\ x.pc = "done" /\ x.reply = reply /\ x.fd = None /\ Asked(q, x)
      BY <1>a, <2>2, AnswerLemma
    <3>. QED
      BY <1>g, <2>2, <3>1 DEF Remove, Removes, DiskIs, Kept
  <2>. QED
    BY <1>g, <2>1, <2>2 DEF Remove
<1>10. ASSUME PutFails(c) PROVE Removes(q, x)
  BY <1>10, <1>g DEF PutFails
<1>11. ASSUME Insert(c) PROVE Records(q, x) \/ GivesUp(q, x)
  <2>1. CASE rows' = With(rows, q.id, q.body) /\ Answer(c, "ok")
    BY <1>11, <1>e, <2>1 DEF Insert, Records
  <2>3. CASE rows' = With(rows, q.id, q.body)
             /\ Become(c, [q EXCEPT !.pc = "cleanup", !.unseen = {"row"}])
    <3>1. x = [q EXCEPT !.pc = "cleanup", !.unseen = {"row"}] /\ q.pc = "insert"
      BY <1>11, <1>b, <2>3 DEF Insert
    <3>2. /\ x.pc = "cleanup" /\ x.fd = None /\ x.id = q.id /\ x.op = q.op
          /\ x.unseen = {"row"}
      BY <1>a, <3>1 DEF Slot, Shape
    <3>. QED
      BY <1>11, <2>3, <3>1, <3>2 DEF Insert, Records, Asked
  <2>2. CASE UNCHANGED rows /\ Goto(c, "cleanup")
    <3>1. x = [q EXCEPT !.pc = "cleanup"] /\ q.pc = "insert"
      BY <1>11, <1>b, <2>2 DEF Goto, Insert
    <3>2. x.pc = "cleanup" /\ x.fd = None /\ x.id = q.id /\ x.op = q.op /\ x.reply = None
      BY <1>a, <3>1 DEF Slot, Shape
    <3>. QED
      BY <1>11, <2>2, <3>1, <3>2, NoneAssumption DEF Insert, GivesUp, Asked, Same
  <2>. QED
    BY <1>11, <2>1, <2>2, <2>3 DEF Insert
<1>12. ASSUME Describe(c) PROVE Records(q, x) \/ GivesUp(q, x)
  <2>1. CASE /\ q.id \in DOMAIN rows /\ rows' = [rows EXCEPT ![q.id] = q.body]
             /\ Answer(c, "ok") \/ Answer(c, "error")
    <3>1. rows' = With(rows, q.id, q.body)
      BY <2>1 DEF With
    <3>. QED
      BY <1>12, <1>e, <2>1, <3>1 DEF Describe, Records
  <2>2. CASE UNCHANGED rows /\ (Answer(c, "not_found") \/ Answer(c, "error"))
    BY <1>12, <1>e, <2>2 DEF Describe, GivesUp, Same
  <2>. QED
    BY <1>12, <2>1, <2>2 DEF Describe
<1>13. ASSUME Unlink(c) PROVE Unlinks(q, x) \/ GivesUp(q, x)
  <2>1. CASE rows' = Without(rows, q.id) /\ Goto(c, "erase")
    <3>1. x = [q EXCEPT !.pc = "erase"] /\ q.pc = "unlink"
      BY <1>13, <1>b, <2>1 DEF Goto, Unlink
    <3>2. x.pc = "erase" /\ x.fd = None /\ x.id = q.id /\ x.op = q.op
      BY <1>a, <3>1 DEF Slot, Shape
    <3>. QED
      BY <1>13, <2>1, <3>1, <3>2 DEF Unlink, Unlinks, Asked
  <2>3. CASE rows' = Without(rows, q.id) /\ Answer(c, "error")
    BY <1>13, <1>e, <2>3 DEF Unlink, Unlinks
  <2>2. CASE UNCHANGED rows /\ (Answer(c, "not_found") \/ Answer(c, "error"))
    BY <1>13, <1>e, <2>2 DEF Unlink, GivesUp, Same
  <2>. QED
    BY <1>13, <2>1, <2>2, <2>3 DEF Unlink
<1>14. ASSUME Erase(c) PROVE Removes(q, x)
  BY <1>14, <1>g DEF Erase
<1>15. ASSUME Fetch(c) PROVE Fetches(q, x) \/ Misses(q, x)
  <2>1. CASE q.id \in DOMAIN dir
             /\ Become(c, [q EXCEPT !.pc = "copy", !.fd = dir[q.id], !.at = q.from])
    <3>1. x = [q EXCEPT !.pc = "copy", !.fd = dir[q.id], !.at = q.from]
      BY <1>b, <2>1
    <3>2. /\ x.pc = "copy" /\ x.fd = dir[q.id] /\ x.at = q.from /\ x.id = q.id /\ x.op = q.op
          /\ x.said = q.said /\ x.from = q.from /\ x.upto = q.upto /\ x.got = q.got
      BY <1>a, <3>1 DEF Slot
    <3>. QED
      BY <1>15, <2>1, <3>2 DEF Fetch, Fetches, Asked, Same
  <2>2. CASE q.id \notin DOMAIN dir /\ Answer(c, "missing")
    BY <1>15, <1>e, <2>2 DEF Fetch, Misses, Same
  <2>3. CASE Answer(c, "error")
    BY <1>15, <1>e, <2>3 DEF Fetch, Misses, Same
  <2>. QED
    BY <1>15, <2>1, <2>2, <2>3 DEF Fetch
<1>16. ASSUME Copy(c) PROVE Copies(q, x)
  <2>. DEFINE piece == disk[q.fd][q.at + 1]
  <2>1. x = [q EXCEPT !.got = Append(@, piece), !.at = @ + 1]
    BY <1>16, <1>b DEF Copy
  <2>. HIDE DEF piece
  <2>2. /\ x.pc = q.pc /\ x.fd = q.fd /\ x.at = q.at + 1 /\ x.id = q.id /\ x.op = q.op
        /\ x.said = q.said /\ x.from = q.from /\ x.upto = q.upto /\ x.got = Append(q.got, piece)
    BY <1>a, <2>1 DEF Slot
  <2>. QED
    BY <1>16, <2>2 DEF Copy, Copies, Asked, Same, piece
<1>17. ASSUME CopyEnds(c) PROVE Ends(q, x)
  <2>. DEFINE reply == IF q.op = "range" /\ q.at < q.upto THEN "short" ELSE "ok"
  <2>1. Answer(c, reply)
    BY <1>17 DEF CopyEnds
  <2>. QED
    BY <1>17, <1>e, <2>1 DEF CopyEnds, Ends, DiskIs, Kept
<1>18. ASSUME CopyFails(c) PROVE Ends(q, x)
  BY <1>18, <1>e DEF CopyFails, Ends, DiskIs, Kept
<1>. QED
  BY <1>1, <1>2, <1>3, <1>4, <1>5, <1>6, <1>7, <1>8, <1>9, <1>10, <1>11, <1>12, <1>13, <1>14,
     <1>15, <1>16, <1>17, <1>18
  DEF Step, WriterStep, ReaderStep, Moves

----------------------------------------------------------------------------
(* The inodes.                                                              *)

\* Inode n has the name i, or a descriptor of a request for i.
Belongs(n, i) ==
    \/ i \in DOMAIN dir /\ dir[i] = n
    \/ n # None /\ \E c \in Clients : slots[c].fd = n /\ slots[c].id = i

LEMMA BelongsLemma ==
    ASSUME Types, NEW n, NEW i, Belongs(n, i)
    PROVE  n \in Live /\ n \in Inodes /\ i \in minted
<1>1. CASE i \in DOMAIN dir /\ dir[i] = n
  BY <1>1, LiveLemma DEF Types
<1>2. CASE n # None /\ \E c \in Clients : slots[c].fd = n /\ slots[c].id = i
  <2>1. PICK c \in Clients : slots[c].fd = n /\ slots[c].id = i
    BY <1>2
  <2>2. slots[c] \in Slot /\ Shape(c, slots[c], minted)
    BY DEF Types, Shape
  <2>3. n \in Inodes
    BY <1>2, <2>1, <2>2 DEF Slot
  <2>4. i # None /\ i \in minted
    BY <1>2, <2>1, <2>2 DEF Shape, InFlight
  <2>. QED
    BY <1>2, <2>1, <2>3, <2>4, LiveLemma
<1>. QED
  BY <1>1, <1>2 DEF Belongs

\* The requests that a step leaves alone, and the one that takes it.
LEMMA OthersLemma ==
    ASSUME Types, NEW c \in Clients, Step(c)
    PROVE  /\ DOMAIN slots = Clients /\ DOMAIN slots' = Clients
           /\ \A d \in Clients : d # c => slots'[d] = slots[d]
           /\ slots[c].pc \notin {"write", "copy"} => slots[c].fd = None
           /\ slots[c].id # None => slots[c].id \in minted
           /\ slots[c].pc = "idle" => slots[c].id = None
           /\ slots[c].pc \notin {"idle", "done"} => slots[c].id # None
           /\ slots[c].pc \in {"write", "copy"} => slots[c].fd \in Inodes
           /\ minted \subseteq minted' /\ minted' \subseteq Ids
<1>1. Shape(c, slots[c], minted) /\ DOMAIN slots = Clients
  BY DEF Types
<1>2. minted' \subseteq Ids
  BY DEF Types, Step, WriterStep, ReaderStep, BeginCreate, BeginReplace, BeginDelete, Close, Open,
       Write, PutReturns, PutFails, Insert, Describe, Unlink, Erase, BeginRead, BeginRange,
       Fetch, Copy, CopyEnds, CopyFails, Address, Remove
<1>. QED
  BY <1>1, <1>2, SlotLemma DEF Shape, InFlight

\* An inode comes to belong to an id only by being opened for it.
LEMMA AcquireLemma ==
    ASSUME Types, NEW c \in Clients, Step(c), NEW n, NEW i, Belongs(n, i)'
    PROVE  \/ Belongs(n, i)
           \/ /\ Opens(slots[c], slots'[c]) /\ i = slots[c].id /\ n = slots'[c].fd
              /\ n \in Inodes \ Live
<1>. DEFINE q == slots[c]
            x == slots'[c]
<1>1. Moves(q, x)
  BY MoveLemma
<1>2. /\ \A d \in Clients : d # c => slots'[d] = slots[d]
      /\ q.pc \notin {"write", "copy"} => q.fd = None
  BY OthersLemma
<1>3. CASE i \in DOMAIN dir' /\ dir'[i] = n
  <2>1. CASE Opens(q, x)
    <3>1. CASE i = q.id
      BY <1>3, <2>1, <3>1 DEF Opens, With, Opened, Belongs
    <3>2. CASE i # q.id
      BY <1>3, <2>1, <3>2 DEF Opens, With, Belongs
    <3>. QED
      BY <3>1, <3>2
  <2>2. CASE Removes(q, x)
    BY <1>3, <2>2 DEF Removes, Without, Belongs
  <2>3. CASE dir' = dir
    BY <1>3, <2>3 DEF Belongs
  <2>. QED
    BY <1>1, <2>1, <2>2, <2>3
    DEF Moves, Begins, Closes, Writes, Returns, Records, Unlinks, GivesUp, Fetches,
        Misses, Copies, Ends, Same
<1>4. CASE n # None /\ \E d \in Clients : slots'[d].fd = n /\ slots'[d].id = i
  <2>1. PICK d \in Clients : slots'[d].fd = n /\ slots'[d].id = i
    BY <1>4
  <2>2. CASE d # c
    BY <1>2, <1>4, <2>1, <2>2 DEF Belongs
  <2>3. CASE d = c
    <3>1. CASE Opens(q, x)
      BY <1>4, <2>1, <2>3, <3>1 DEF Opens, Asked, Opened, Belongs
    <3>2. CASE Fetches(q, x)
      BY <1>4, <2>1, <2>3, <3>2 DEF Fetches, Asked, Belongs
    <3>3. CASE Writes(q, x) \/ Copies(q, x)
      <4>1. q.fd = n /\ q.id = i
        BY <2>1, <2>3, <3>3 DEF Writes, Copies, Asked
      <4>. QED
        BY <1>4, <4>1 DEF Belongs
    <3>4. CASE x.fd = None
      BY <1>4, <2>1, <2>3, <3>4
    <3>. QED
      BY <1>1, <3>1, <3>2, <3>3, <3>4
      DEF Moves, Begins, Closes, Returns, Records, Unlinks, Removes, GivesUp, Misses, Ends
  <2>. QED
    BY <2>2, <2>3
<1>. QED
  BY <1>3, <1>4 DEF Belongs

\* The bytes an inode has after a step: an open empties it, a write puts a piece
\* in it, and nothing else touches it.
LEMMA DiskLemma ==
    ASSUME Types, NEW c \in Clients, Step(c)
    PROVE  LET q == slots[c]
               x == slots'[c] IN
           /\ DOMAIN disk' = Live'
           /\ \A n \in Live' :
                 \/ Opens(q, x) /\ n = x.fd /\ disk'[n] = <<>>
                 \/ /\ Writes(q, x) /\ n = q.fd /\ n \in Live
                    /\ disk'[n] = Written(disk[n], q.at, q.body[q.at + 1])
                 \/ /\ n \in Live /\ disk'[n] = disk[n]
                    /\ ~(Opens(q, x) /\ n = x.fd) /\ ~(Writes(q, x) /\ n = q.fd)
<1>. DEFINE q == slots[c]
            x == slots'[c]
<1>1. Moves(q, x) /\ DOMAIN disk = Live
  BY MoveLemma DEF Types
<1>2. /\ \A d \in Clients : d # c => slots'[d] = slots[d]
      /\ q.pc \notin {"write", "copy"} => q.fd = None
  BY OthersLemma
<1>3. ASSUME NEW n \in Live' PROVE n \in Live \/ (Opens(q, x) /\ n = x.fd)
  <2>1. \E i : Belongs(n, i)'
    BY <1>3, LiveLemma DEF Belongs
  <2>2. PICK i : Belongs(n, i)'
    BY <2>1
  <2>3. CASE Belongs(n, i)
    BY <2>3, BelongsLemma
  <2>. QED
    BY <2>2, <2>3, AcquireLemma
<1>4. CASE Opens(q, x)
  <2>1. disk' = [n \in Live' |-> Create(disk, x.fd)[n]] /\ q.pc = "open"
    BY <1>4 DEF Opens
  <2>2. \A n \in Live' : disk'[n] = IF n = x.fd THEN <<>> ELSE disk[n]
    BY <1>1, <1>3, <2>1 DEF Create, With
  <2>. QED
    BY <1>3, <1>4, <2>1, <2>2 DEF Writes
<1>5. CASE Writes(q, x)
  <2>1. Live' = Live
    <3>1. \A n : n \in Live' <=> n \in Live
      BY <1>2, <1>5, LiveLemma DEF Writes
    <3>. QED
      BY <3>1
  <2>2. disk' = [disk EXCEPT ![q.fd] = Written(@, q.at, q.body[q.at + 1])] /\ q.pc = "write"
    BY <1>5 DEF Writes
  <2>3. ~Opens(q, x)
    BY <2>2 DEF Opens
  <2>4. \A n \in Live : disk'[n] = IF n = q.fd THEN Written(disk[n], q.at, q.body[q.at + 1]) ELSE disk[n]
    BY <1>1, <2>2
  <2>5. DOMAIN disk' = DOMAIN disk
    BY <2>2
  <2>. QED
    BY <1>1, <1>5, <2>1, <2>3, <2>4, <2>5
<1>6. CASE ~Opens(q, x) /\ ~Writes(q, x)
  <2>1. Kept \/ (disk' = disk /\ Live' = Live)
    <3>1. CASE Returns(q, x) \/ Removes(q, x) \/ Ends(q, x)
      BY <3>1 DEF Returns, Removes, Ends
    <3>2. CASE Begins(q, x) \/ Closes(q, x) \/ Records(q, x) \/ Unlinks(q, x) \/ GivesUp(q, x)
               \/ Fetches(q, x) \/ Misses(q, x) \/ Copies(q, x)
      <4>1. dir' = dir /\ disk' = disk
        BY <3>2 DEF Begins, Closes, Records, Unlinks, GivesUp, Fetches, Misses, Copies, Same
      <4>2. x.fd = q.fd \/ (q.fd = None /\ x.fd \in Live)
        <5>1. CASE Fetches(q, x)
          BY <1>2, <5>1, LiveLemma DEF Fetches
        <5>2. CASE Copies(q, x)
          BY <5>2 DEF Copies
        <5>3. CASE ~Fetches(q, x) /\ ~Copies(q, x)
          BY <1>2, <3>2, <5>3 DEF Begins, Closes, Records, Unlinks, GivesUp, Misses
        <5>. QED
          BY <5>1, <5>2, <5>3
      <4>3. \A n : n \in Live => n \in Live'
        BY <1>2, <4>1, <4>2, LiveLemma
      <4>. QED
        BY <1>3, <1>6, <4>1, <4>3
    <3>. QED
      BY <1>1, <1>6, <3>1, <3>2 DEF Moves
  <2>2. DOMAIN disk' = Live' /\ \A n \in Live' : disk'[n] = disk[n]
    BY <1>1, <2>1 DEF Kept
  <2>. QED
    BY <1>3, <1>6, <2>2
<1>. QED
  BY <1>4, <1>5, <1>6

\* A restart closes what was under way.
LEMMA RestartLemma ==
    ASSUME Types, Restart
    PROVE  /\ dir' = dir /\ rows' = rows /\ minted' = minted /\ DOMAIN slots' = Clients
           /\ \A d \in Clients :
                 /\ slots'[d] = IF InFlight(slots[d]) THEN Idle ELSE slots[d]
                 /\ slots'[d].pc \in {"idle", "done"} /\ slots'[d].fd = None
           /\ \A n, i : Belongs(n, i)' => Belongs(n, i)
           /\ DOMAIN disk' = Live' /\ \A n \in Live' : n \in Live /\ disk'[n] = disk[n]
<1>1. dir' = dir /\ rows' = rows /\ minted' = minted
  BY DEF Restart
<1>2. DOMAIN slots' = Clients /\ \A d \in Clients : slots'[d] = IF InFlight(slots[d]) THEN Idle ELSE slots[d]
  BY DEF Restart
<1>3. \A d \in Clients : slots'[d].pc \in {"idle", "done"} /\ slots'[d].fd = None
  <2>1. \A d \in Clients : slots[d].pc \in {"idle", "done"} => slots[d].fd = None
    BY DEF Types, Shape
  <2>. QED
    BY <1>2, <2>1 DEF InFlight, Idle
<1>4. \A n, i : Belongs(n, i)' => Belongs(n, i)
  BY <1>1, <1>3 DEF Belongs
<1>5. DOMAIN disk' = Live' /\ \A n \in Live' : disk'[n] = disk[n]
  BY DEF Restart, DiskIs
<1>6. \A n : n \in Live' => n \in Live
  BY <1>1, <1>3, LiveLemma
<1>. QED
  BY <1>1, <1>2, <1>3, <1>4, <1>5, <1>6

LEMMA TypesInit == Init => Types
<1>. SUFFICES ASSUME Init PROVE Types
  OBVIOUS
<1>1. \A c \in Clients : slots[c] = Idle
  BY DEF Init
<1>2. \A n : n \notin Live
  <2>1. Idle.fd = None
    BY DEF Idle
  <2>. QED
    BY <1>1, <2>1, LiveLemma DEF Init
<1>. QED
  BY <1>1, <1>2, IdleLemma DEF Init, Types

\* A shape that drew its id from fewer ids is one that drew it from more.
LEMMA MoreLemma ==
    ASSUME NEW c, NEW q, NEW drawn, NEW more, drawn \subseteq more, Shape(c, q, drawn)
    PROVE  Shape(c, q, more)
BY DEF Shape

LEMMA TypesStep ==
    ASSUME Types, NEW c \in Clients, Step(c)
    PROVE  Types'
<1>. DEFINE q == slots[c]
            x == slots'[c]
<1>1. Moves(q, x) /\ Shape(c, q, minted)
  BY MoveLemma DEF Types
<1>2. \A d \in Clients : Shape(d, slots'[d], minted')
  <2>1. ASSUME NEW d \in Clients, d # c PROVE Shape(d, slots'[d], minted')
    <3>1. slots'[d] = slots[d] /\ Shape(d, slots[d], minted) /\ minted \subseteq minted'
      BY <2>1, OthersLemma DEF Types
    <3>. QED
      BY <3>1, MoreLemma
  <2>. QED
    BY <2>1, ShapeLemma
<1>3. minted \subseteq minted' /\ minted' \subseteq Ids /\ DOMAIN slots' = Clients
  BY OthersLemma
<1>4. ASSUME NEW i \in DOMAIN dir' PROVE i \in minted' /\ dir'[i] \in Inodes
  <2>. PICK n : n = dir'[i]
    OBVIOUS
  <2>1. Belongs(n, i)'
    BY <1>4 DEF Belongs
  <2>2. CASE Belongs(n, i)
    BY <1>3, <2>2, BelongsLemma
  <2>3. CASE Opens(q, x) /\ i = q.id /\ n \in Inodes
    BY <1>3, <2>3, OthersLemma DEF Opens
  <2>. QED
    BY <2>1, <2>2, <2>3, AcquireLemma
<1>5. DOMAIN rows' \subseteq minted' /\ \A i \in DOMAIN rows' : rows'[i] \in Bodies
  <2>1. CASE Records(q, x)
    <3>1. q.id \in minted /\ q.body \in Bodies
      BY <1>1, <2>1, OthersLemma DEF Records, Shape
    <3>. QED
      BY <1>3, <2>1, <3>1 DEF Records, With, Types
  <2>2. CASE Unlinks(q, x)
    BY <1>3, <2>2 DEF Unlinks, Without, Types
  <2>3. CASE rows' = rows
    BY <1>3, <2>3 DEF Types
  <2>. QED
    BY <1>1, <2>1, <2>2, <2>3
    DEF Moves, Begins, Closes, Opens, Writes, Returns, Removes, GivesUp, Fetches, Misses,
        Copies, Ends, Same
<1>6. DOMAIN disk' = Live'
  BY DiskLemma
<1>7. ASSUME NEW n \in Live' PROVE disk'[n] \in Bytes
  <2>1. n \in Live => disk[n] \in Bytes
    BY DEF Types
  <2>2. CASE disk'[n] = <<>>
    BY <2>2, EmptySeq DEF Bytes
  <2>3. CASE Writes(q, x) /\ n \in Live /\ disk'[n] = Written(disk[n], q.at, q.body[q.at + 1])
    <3>1. q \in Slot /\ q.body \in Bodies /\ q.at < Len(q.body)
      BY <1>1, <2>3 DEF Writes, Shape
    <3>2. q.at \in Nat /\ q.at + 1 \in 1..Len(q.body)
      BY <3>1, BodyLemma DEF Slot
    <3>3. q.body[q.at + 1] \in Places
      BY <3>1, <3>2, BodyLemma
    <3>. PICK s, k, piece : s = disk[n] /\ k = q.at /\ piece = q.body[q.at + 1]
      OBVIOUS
    <3>4. s \in Seq(Places) /\ k \in Nat /\ piece \in Places
      BY <2>1, <2>3, <3>2, <3>3 DEF Bytes
    <3>5. Written(s, k, piece) \in Seq(Places)
      BY <3>4, WrittenLemma
    <3>. QED
      BY <2>3, <3>5 DEF Bytes
  <2>4. CASE n \in Live /\ disk'[n] = disk[n]
    BY <2>1, <2>4
  <2>. QED
    BY <2>2, <2>3, <2>4, DiskLemma
<1>. QED
  BY <1>2, <1>3, <1>4, <1>5, <1>6, <1>7 DEF Types

LEMMA TypesRestart ==
    ASSUME Types, Restart
    PROVE  Types'
<1>1. \A c \in Clients : Shape(c, slots'[c], minted')
  <2>1. ASSUME NEW c \in Clients PROVE Shape(c, slots'[c], minted')
    <3>1. slots'[c] = Idle \/ slots'[c] = slots[c]
      BY RestartLemma
    <3>2. Shape(c, slots[c], minted) /\ minted' = minted
      BY RestartLemma DEF Types
    <3>. QED
      BY <3>1, <3>2, IdleLemma
  <2>. QED
    BY <2>1
<1>2. \A n \in Live' : disk'[n] \in Bytes
  BY RestartLemma DEF Types
<1>. QED
  BY <1>1, <1>2, RestartLemma DEF Types

LEMMA StutterLemma ==
    ASSUME UNCHANGED vars
    PROVE  /\ dir' = dir /\ disk' = disk /\ rows' = rows /\ minted' = minted /\ slots' = slots
           /\ torn' = torn /\ blurred' = blurred /\ calm' = calm
BY DEF vars

\* The steps of the specification.
LEMMA StepsLemma ==
    ASSUME [Next]_vars
    PROVE  Restart \/ (\E c \in Clients : Step(c)) \/ UNCHANGED vars
BY DEF Next, LNext, Step, Clients

LEMMA TypesNext == Types /\ [Next]_vars => Types'
<1>. SUFFICES ASSUME Types, [Next]_vars PROVE Types'
  OBVIOUS
<1>1. CASE UNCHANGED vars
  <2>1. Live' = Live
    BY <1>1, StutterLemma DEF Live
  <2>. QED
    BY <1>1, <2>1, StutterLemma DEF Types
<1>. QED
  BY <1>1, StepsLemma, TypesStep, TypesRestart

\* No variable is ever outside its type, and the disk holds what has a name or a
\* descriptor.
THEOREM TypesCorrect == Spec => []TypeOK
<1>1. Types => TypeOK
  <2>. SUFFICES ASSUME Types PROVE TypeOK
    OBVIOUS
  <2>1. ASSUME NEW n \in Live PROVE n \in Inodes
    <3>1. \E i : Belongs(n, i)
      BY <2>1, LiveLemma DEF Belongs
    <3>. QED
      BY <3>1, BelongsLemma
  <2>. QED
    BY <2>1 DEF Types, TypeOK, Shape
<1>2. Init1 => Types
  BY TypesInit DEF Init1
<1>. QED
  BY <1>1, <1>2, TypesNext, PTL DEF Spec

----------------------------------------------------------------------------
(* Whose the files are.                                                     *)

\* No inode serves two ids.
Named == \A n \in Inodes, i, j \in Ids : Belongs(n, i) /\ Belongs(n, j) => i = j

\* A create has its id to itself until its row is there, heard of or not.
Holding(q) ==
    /\ q.op = "create"
    /\ \/ q.pc \in {"open", "write", "insert"}
       \/ q.pc = "cleanup" /\ "row" \notin q.unseen
       \/ q.pc = "done" /\ q.reply = "error" /\ "row" \notin q.unseen

\* What has neither row nor other request: the id of a create that is under way
\* or has failed; nor has it a file but one that could not be removed.  And a delete
\* removes a file only when its row is gone.
Alone(c) ==
    /\ slots[c].id # None /\ slots[c].id \notin DOMAIN rows
    /\ \A d \in Clients : d # c => slots[d].id # slots[c].id
    /\ slots[c].pc \in {"open", "done"} =>
          slots[c].id \notin DOMAIN dir \/ "name" \in slots[c].unseen

Held ==
    \A c \in Clients :
        /\ Holding(slots[c]) => Alone(c)
        /\ slots[c].pc = "erase" => slots[c].id \notin DOMAIN rows

LEMMA NamedInit == Init => Named /\ Held
<1>. SUFFICES ASSUME Init PROVE Named /\ Held
  OBVIOUS
<1>1. \A c \in Clients : slots[c].fd = None /\ slots[c].op = None /\ slots[c].pc = "idle"
  BY DEF Init, Idle
<1>. QED
  BY <1>1, NoneAssumption DEF Init, Named, Held, Holding, Belongs

LEMMA NamedStep ==
    ASSUME Types, Named, NEW c \in Clients, Step(c)
    PROVE  Named'
<1>. SUFFICES ASSUME NEW n \in Inodes, NEW i \in Ids, NEW j \in Ids,
                     Belongs(n, i)', Belongs(n, j)'
              PROVE  i = j
  BY DEF Named
<1>1. Belongs(n, i) \/ (i = slots[c].id /\ n \notin Live)
  BY AcquireLemma
<1>2. Belongs(n, j) \/ (j = slots[c].id /\ n \notin Live)
  BY AcquireLemma
<1>3. Belongs(n, i) => n \in Live
  BY BelongsLemma
<1>4. Belongs(n, j) => n \in Live
  BY BelongsLemma
<1>. QED
  BY <1>1, <1>2, <1>3, <1>4 DEF Named

\* What a step makes of the rows and the names.
LEMMA TablesLemma ==
    ASSUME Types, NEW c \in Clients, Step(c)
    PROVE  LET q == slots[c]
               x == slots'[c] IN
           /\ Asked(q, x) \/ Begins(q, x) \/ Closes(q, x)
           /\ \/ rows' = rows
              \/ Records(q, x) /\ rows' = With(rows, q.id, q.body)
              \/ Unlinks(q, x) /\ rows' = Without(rows, q.id)
           /\ \/ dir' = dir
              \/ Opens(q, x) /\ dir' = With(dir, q.id, x.fd)
              \/ Removes(q, x) /\ dir' = Without(dir, q.id)
<1>. DEFINE q == slots[c]
            x == slots'[c]
<1>1. Moves(q, x)
  BY MoveLemma
<1>2. Asked(q, x) \/ Begins(q, x) \/ Closes(q, x)
  BY <1>1 DEF Moves, Opens, Writes, Returns, Records, Unlinks, Removes, GivesUp, Fetches,
              Misses, Copies, Ends
<1>3. \/ rows' = rows
      \/ Records(q, x) /\ rows' = With(rows, q.id, q.body)
      \/ Unlinks(q, x) /\ rows' = Without(rows, q.id)
  BY <1>1 DEF Moves, Begins, Closes, Opens, Writes, Returns, Records, Unlinks, Removes,
              GivesUp, Fetches, Misses, Copies, Ends, Same
<1>4. \/ dir' = dir
      \/ Opens(q, x) /\ dir' = With(dir, q.id, x.fd)
      \/ Removes(q, x) /\ dir' = Without(dir, q.id)
  BY <1>1 DEF Moves, Begins, Closes, Opens, Writes, Returns, Records, Unlinks, Removes,
              GivesUp, Fetches, Misses, Copies, Ends, Same
<1>. QED
  BY <1>2, <1>3, <1>4

LEMMA HeldStep ==
    ASSUME Types, Held, NEW c \in Clients, Step(c)
    PROVE  Held'
<1>. DEFINE q == slots[c]
            x == slots'[c]
<1>1. Moves(q, x)
  BY MoveLemma
<1>2. /\ \A d \in Clients : d # c => slots'[d] = slots[d]
      /\ \A d \in Clients : slots[d].id # None => slots[d].id \in minted
  BY OthersLemma DEF Types, Shape
<1>3. Shape(c, q, minted) /\ DOMAIN rows \subseteq minted /\ DOMAIN dir \subseteq minted
      /\ minted \subseteq Ids
  BY DEF Types
<1>4. q.pc = "insert" => Holding(q)
  BY <1>3 DEF Shape, Holding
<1>5. DOMAIN rows' \subseteq DOMAIN rows
      \/ (q.pc = "insert" /\ DOMAIN rows' = DOMAIN rows \cup {q.id})
  BY TablesLemma DEF Records, With, Without
<1>6. DOMAIN dir' \subseteq DOMAIN dir \/ DOMAIN dir' = DOMAIN dir \cup {q.id}
  BY TablesLemma DEF With, Without
<1>7. ASSUME NEW e \in Clients, e # c, Holding(slots[e])
      PROVE  Alone(e)'
  <2>1. Alone(e) /\ slots[e].id # q.id /\ slots[e].id \in minted
    BY <1>2, <1>7 DEF Held, Alone
  <2>2. x.id # slots[e].id
    BY <1>3, <2>1, TablesLemma DEF Asked, Begins, Closes, Alone
  <2>. QED
    BY <1>2, <1>5, <1>6, <1>7, <2>1, <2>2 DEF Alone
<1>8. ASSUME NEW e \in Clients, e # c, slots[e].pc = "erase"
      PROVE  slots[e].id \notin DOMAIN rows'
  <2>1. q.pc = "insert" => slots[e].id # q.id
    BY <1>4, <1>8 DEF Held, Alone
  <2>. QED
    BY <1>5, <1>8, <2>1 DEF Held
<1>9. ASSUME Holding(x) PROVE Alone(c)'
  <2>1. CASE Begins(q, x)
    <3>1. x.id \in Ids \ minted /\ dir' = dir /\ rows' = rows
      BY <1>9, <2>1 DEF Begins, Holding, Same
    <3>. QED
      BY <1>2, <1>3, <3>1, NoneAssumption DEF Alone
  <2>2. ASSUME Holding(q), Asked(q, x), rows' = rows,
               x.pc \in {"open", "done"} => q.id \notin DOMAIN dir' \/ "name" \in x.unseen
        PROVE  Alone(c)'
    <3>1. Alone(c)
      BY <2>2 DEF Held
    <3>. QED
      BY <1>2, <2>2, <3>1 DEF Alone, Asked
  <2>3. CASE Opens(q, x) \/ Writes(q, x) \/ Returns(q, x)
    BY <1>9, <2>2, <2>3 DEF Opens, Writes, Returns, Holding, Asked
  <2>4. CASE Removes(q, x)
    <3>1. Holding(q)
      BY <1>3, <1>9, <2>4 DEF Removes, Holding, Asked, Shape
    <3>. QED
      BY <2>2, <2>4, <3>1 DEF Removes, Without
  <2>5. CASE GivesUp(q, x)
    <3>1. Holding(q) /\ (q.pc = "open" \/ q.pc = "insert")
      BY <1>3, <1>9, <2>5 DEF GivesUp, Holding, Asked, Shape
    <3>2. x.pc \in {"open", "done"} => q.id \notin DOMAIN dir'
      BY <1>3, <2>5, <3>1 DEF GivesUp, Held, Alone, Same, Shape
    <3>. QED
      BY <2>2, <2>5, <3>1, <3>2 DEF GivesUp, Same
  <2>6. \/ Begins(q, x) \/ Opens(q, x) \/ Writes(q, x) \/ Returns(q, x)
        \/ Removes(q, x) \/ GivesUp(q, x)
    <3>1. ~Unlinks(q, x)
      BY <1>3, <1>9 DEF Unlinks, Holding, Asked, Shape
    <3>2. ~Closes(q, x) /\ ~Records(q, x) /\ ~Fetches(q, x) /\ ~Copies(q, x)
      BY <1>3, <1>9 DEF Closes, Records, Fetches, Copies, Holding, Asked, Shape
    <3>3. q.pc \notin {"fetch", "copy"}
      <4>1. q.pc \in {"fetch", "copy"} => ~Begins(q, x) /\ ~Closes(q, x)
        BY DEF Begins, Closes
      <4>. QED
        BY <1>3, <1>9, <4>1, TablesLemma DEF Holding, Asked, Shape
    <3>4. ~Misses(q, x) /\ ~Ends(q, x)
      BY <3>3 DEF Misses, Ends
    <3>. QED
      BY <1>1, <3>1, <3>2, <3>4 DEF Moves
  <2>. QED
    BY <2>1, <2>3, <2>4, <2>5, <2>6
<1>10. ASSUME x.pc = "erase" PROVE x.id \notin DOMAIN rows'
  <2>1. Unlinks(q, x)
    BY <1>1, <1>10 DEF Moves, Begins, Closes, Opens, Writes, Returns, Records, Removes,
              GivesUp, Fetches, Misses, Copies, Ends
  <2>. QED
    BY <2>1 DEF Unlinks, Without, Asked
<1>. QED
  BY <1>2, <1>7, <1>8, <1>9, <1>10 DEF Held

NamesInv == Types /\ Named /\ Held

LEMMA NamesRestart ==
    ASSUME NamesInv, Restart
    PROVE  NamesInv'
<1>1. Types /\ Named /\ Held
  BY DEF NamesInv
<1>2. Named'
  BY <1>1, RestartLemma DEF Named
<1>3. ASSUME NEW c \in Clients
      PROVE  slots'[c] = slots[c] \/ (slots'[c].op = None /\ slots'[c].pc = "idle" /\ slots'[c].id = None)
  BY <1>1, RestartLemma DEF Idle
<1>4. ASSUME NEW c \in Clients, Holding(slots'[c]) PROVE Alone(c)'
  <2>1. slots'[c] = slots[c]
    BY <1>3, <1>4, NoneAssumption DEF Holding
  <2>2. Alone(c)
    BY <1>1, <1>4, <2>1 DEF Held
  <2>. QED
    BY <1>1, <1>3, <2>1, <2>2, RestartLemma DEF Alone
<1>5. Held'
  BY <1>1, <1>3, <1>4, RestartLemma DEF Held
<1>. QED
  BY <1>1, <1>2, <1>5, TypesRestart DEF NamesInv

LEMMA NamesInit == Init1 => NamesInv
BY TypesInit, NamedInit DEF Init1, NamesInv

LEMMA NamesNext == NamesInv /\ [Next]_vars => NamesInv'
<1>. SUFFICES ASSUME NamesInv, [Next]_vars PROVE NamesInv'
  OBVIOUS
<1>1. ASSUME NEW c \in Clients, Step(c) PROVE NamesInv'
  BY <1>1, TypesStep, NamedStep, HeldStep DEF NamesInv
<1>2. CASE UNCHANGED vars
  <2>1. Types'
    BY TypesNext DEF NamesInv
  <2>2. \A n, i : Belongs(n, i)' => Belongs(n, i)
    BY <1>2, StutterLemma DEF Belongs
  <2>3. \A c : Alone(c) => Alone(c)'
    BY <1>2, StutterLemma DEF Alone
  <2>. QED
    BY <1>2, <2>1, <2>2, <2>3, StutterLemma DEF NamesInv, Named, Held
<1>. QED
  BY <1>1, <1>2, StepsLemma, NamesRestart

\* A create that is answered an error has left neither file nor row, whichever
\* step failed, unless it left one unseen: a file os.Remove failed to take away as
\* well, or a row whose INSERT was committed.  Its id is its own until its row is
\* there, so nobody else can have made the file under it (local.go:39,
\* service.go:99-105).
THEOREM FailedCreatesAreClean == Spec => []FailedCreatesLeaveNoFile
<1>1. NamesInv => FailedCreatesLeaveNoFile
  <2>. SUFFICES ASSUME NamesInv, NEW c \in Writers, slots[c].op = "create", slots[c].reply = "error",
                       slots[c].unseen = {}
                PROVE  slots[c].id \notin DOMAIN dir \cup DOMAIN rows
    BY DEF FailedCreatesLeaveNoFile
  <2>1. slots[c].pc = "done"
    BY NoneAssumption DEF NamesInv, Types, Shape, Clients
  <2>. QED
    BY <2>1 DEF NamesInv, Held, Holding, Alone, Clients
<1>. QED
  BY <1>1, NamesInit, NamesNext, PTL DEF Spec

----------------------------------------------------------------------------
(* What the files hold.                                                     *)

\* s is the first k pieces of b.
Prefix(s, b, k) == Len(s) = k /\ \A j \in 1..k : s[j] = b[j]

LEMMA PrefixLemma ==
    ASSUME NEW b \in Bodies
    PROVE  /\ Prefix(<<>>, b, 0)
           /\ \A s \in Bytes : Prefix(s, b, Len(b)) => s = b
           /\ \A s \in Bytes, k \in Nat :
                 k < Len(b) /\ Prefix(s, b, k) => Prefix(Written(s, k, b[k + 1]), b, k + 1)
<1>1. b \in Seq(Places) /\ Len(b) \in Nat /\ \A k \in 1..Len(b) : b[k] \in Places
  BY BodyLemma
<1>2. Prefix(<<>>, b, 0)
  BY EmptySeq DEF Prefix
<1>3. ASSUME NEW s \in Bytes, Prefix(s, b, Len(b)) PROVE s = b
  BY <1>1, <1>3, SeqEqual DEF Prefix, Bytes
<1>4. ASSUME NEW s \in Bytes, NEW k \in Nat, k < Len(b), Prefix(s, b, k)
      PROVE  Prefix(Written(s, k, b[k + 1]), b, k + 1)
  <2>1. k + 1 \in 1..Len(b) /\ s \in Seq(Places) /\ k = Len(s)
    BY <1>1, <1>4 DEF Prefix, Bytes
  <2>. PICK piece \in Places : piece = b[k + 1]
    BY <1>1, <2>1
  <2>. DEFINE t == Written(s, k, piece)
  <2>2. Len(t) = k + 1 /\ t[k + 1] = piece /\ \A j \in 1..k : t[j] = s[j]
    BY <2>1, WrittenLemma, ZenonT(40)
  <2>. HIDE DEF t
  <2>3. \A j \in 1..(k + 1) : t[j] = b[j]
    <3>. SUFFICES ASSUME NEW j \in 1..(k + 1) PROVE t[j] = b[j]
      OBVIOUS
    <3>1. j = k + 1 \/ j \in 1..k
      OBVIOUS
    <3>. QED
      BY <1>4, <2>2, <3>1 DEF Prefix
  <2>. QED
    BY <2>2, <2>3 DEF Prefix, t
<1>. QED
  BY <1>2, <1>3, <1>4

\* The file of an id that has not been written by two at once: its only writer,
\* if there is one, has written the part of its body that is there, and otherwise
\* a whole body is.
Whole(i) ==
    /\ \A e \in Storing(i) :
          /\ \A d \in Storing(i) : d = e
          /\ i \in DOMAIN dir => dir[i] = slots[e].fd
          /\ Prefix(disk[slots[e].fd], slots[e].body, slots[e].at)
    /\ Storing(i) = {} /\ i \in DOMAIN dir => disk[dir[i]] \in Bodies

\* The file of an id whose last replacement was not disturbed: it is what its row
\* describes, and while a body is being stored, what the row will describe.  A
\* create that is cleaning up promises nothing.
Described(i) ==
    /\ \A e \in Window(i) :
          /\ \A d \in Window(i) : d = e
          /\ slots[e].pc # "cleanup" /\ (slots[e].op = "create" \/ i \in DOMAIN rows) =>
                /\ i \in DOMAIN dir
                /\ slots[e].pc = "write" => dir[i] = slots[e].fd
                /\ slots[e].pc # "write" => disk[dir[i]] = slots[e].body
          /\ slots[e].pc = "write" => Prefix(disk[slots[e].fd], slots[e].body, slots[e].at)
    /\ Window(i) = {} /\ i \in DOMAIN rows => i \in DOMAIN dir /\ disk[dir[i]] = rows[i]

\* An inode of an id keeps its bytes while the request that takes a step neither
\* opens nor writes that id's file.
LEMMA UntouchedLemma ==
    ASSUME NamesInv, NEW c \in Clients, Step(c), NEW i, NEW n \in Live', Belongs(n, i),
           ~(Opens(slots[c], slots'[c]) /\ slots[c].id = i),
           ~(Writes(slots[c], slots'[c]) /\ slots[c].id = i)
    PROVE  disk'[n] = disk[n]
<1>. DEFINE q == slots[c]
            x == slots'[c]
<1>1. Types /\ Named
  BY DEF NamesInv
<1>2. n \in Live /\ n \in Inodes /\ i \in Ids
  BY <1>1, BelongsLemma DEF Types
<1>3. ASSUME Opens(q, x), n = x.fd PROVE FALSE
  <2>1. n \in Opened(q.id) /\ q.id \in Ids
    BY <1>1, <1>3, OthersLemma DEF Opens, Types
  <2>2. Belongs(n, q.id)
    BY <1>2, <2>1 DEF Opened, Belongs
  <2>. QED
    BY <1>1, <1>2, <1>3, <2>1, <2>2 DEF Named
<1>4. ASSUME Writes(q, x), n = q.fd PROVE FALSE
  <2>1. q.id \in Ids /\ n # None
    BY <1>1, <1>2, <1>4, OthersLemma, NoneAssumption DEF Writes, Types
  <2>2. Belongs(n, q.id)
    BY <1>4, <2>1 DEF Belongs
  <2>. QED
    BY <1>1, <1>2, <1>4, <2>1, <2>2 DEF Named
<1>. QED
  BY <1>1, <1>3, <1>4, DiskLemma

\* Likewise its name and the bytes under it, unless the name is removed.
LEMMA EntryLemma ==
    ASSUME NamesInv, NEW c \in Clients, Step(c), NEW i,
           ~(Opens(slots[c], slots'[c]) /\ slots[c].id = i)
    PROVE  /\ i \in DOMAIN dir' =>
                 /\ i \in DOMAIN dir /\ dir'[i] = dir[i]
                 /\ ~(Writes(slots[c], slots'[c]) /\ slots[c].id = i) =>
                       disk'[dir[i]] = disk[dir[i]]
           /\ i \in DOMAIN dir /\ ~(Removes(slots[c], slots'[c]) /\ slots[c].id = i) =>
                 i \in DOMAIN dir'
<1>. DEFINE q == slots[c]
            x == slots'[c]
<1>1. Types
  BY DEF NamesInv
<1>2. \/ dir' = dir
      \/ q.id # i /\ dir' = With(dir, q.id, x.fd)
      \/ Removes(q, x) /\ dir' = Without(dir, q.id)
  BY <1>1, TablesLemma
<1>3. /\ i \in DOMAIN dir' => i \in DOMAIN dir /\ dir'[i] = dir[i]
      /\ i \in DOMAIN dir /\ ~(Removes(q, x) /\ q.id = i) => i \in DOMAIN dir'
  BY <1>2 DEF With, Without
<1>4. ASSUME i \in DOMAIN dir', ~(Writes(q, x) /\ q.id = i)
      PROVE  disk'[dir[i]] = disk[dir[i]]
  <2>. PICK n : n = dir[i]
    OBVIOUS
  <2>1. n \in Live' /\ Belongs(n, i)
    BY <1>3, <1>4, LiveLemma DEF Belongs
  <2>. QED
    BY <1>4, <2>1, UntouchedLemma
<1>. QED
  BY <1>3, <1>4

\* Likewise what another request has open.
LEMMA DescriptorLemma ==
    ASSUME NamesInv, NEW c \in Clients, Step(c), NEW e \in Clients, e # c,
           slots[e].pc \in {"write", "copy"},
           ~(Opens(slots[c], slots'[c]) /\ slots[c].id = slots[e].id),
           ~(Writes(slots[c], slots'[c]) /\ slots[c].id = slots[e].id)
    PROVE  disk'[slots[e].fd] = disk[slots[e].fd]
<1>1. Types
  BY DEF NamesInv
<1>2. slots'[e] = slots[e]
  BY <1>1, OthersLemma
<1>. PICK n : n = slots[e].fd
  OBVIOUS
<1>3. n # None
  BY <1>1, NoneAssumption DEF Types, Shape
<1>4. n \in Live' /\ Belongs(n, slots[e].id)
  BY <1>2, <1>3, LiveLemma DEF Belongs
<1>. QED
  BY <1>4, UntouchedLemma

\* Who is storing and who has stored, before and after a step of c.
LEMMA WindowLemma ==
    ASSUME Types, NEW c \in Clients, Step(c), NEW i
    PROVE  LET q == slots[c]
               x == slots'[c] IN
           /\ \A d \in Window(i)' : d \in Clients /\ (d # c => d \in Window(i))
           /\ \A d \in Window(i) : d \in Clients /\ (d # c => d \in Window(i)')
           /\ \A d \in Storing(i)' : d \in Clients /\ (d # c => d \in Storing(i))
           /\ \A d \in Storing(i) : d \in Clients /\ (d # c => d \in Storing(i)')
           /\ c \in Window(i)' =>
                 /\ q.id = i
                 /\ \/ Opens(q, x) \/ Writes(q, x) \/ Returns(q, x)
                    \/ q.pc = "insert" /\ x.pc = "cleanup"
           /\ c \in Storing(i)' => q.id = i /\ (Opens(q, x) \/ Writes(q, x))
           /\ q.id = i /\ q.pc \in {"write", "insert", "describe", "cleanup"} => c \in Window(i)
           /\ q.id = i /\ q.pc = "write" => c \in Storing(i)
           /\ Opens(q, x) /\ q.id = i => Truncated(i) /\ c \in Storing(i)'
           /\ Truncated(i) => Opens(q, x) /\ q.id = i
           /\ c \in Window(i) => q.id = i /\ q.pc \in {"write", "insert", "describe", "cleanup"}
<1>. DEFINE q == slots[c]
            x == slots'[c]
<1>1. /\ \A d \in Clients : d # c => slots'[d] = slots[d]
      /\ Shape(c, q, minted)
  BY OthersLemma DEF Types
<1>2. Moves(q, x)
  BY MoveLemma
<1>3. q.pc \in {"open", "write", "insert", "describe", "cleanup"} => c \in Writers
  BY <1>1 DEF Shape, Clients
<1>4. ASSUME c \in Window(i)'
      PROVE  /\ q.id = i
             /\ \/ Opens(q, x) \/ Writes(q, x) \/ Returns(q, x)
                \/ q.pc = "insert" /\ x.pc = "cleanup"
  <2>. SUFFICES x.id = i /\ x.pc \in {"write", "insert", "describe", "cleanup"} =>
                   /\ q.id = i
                   /\ \/ Opens(q, x) \/ Writes(q, x) \/ Returns(q, x)
                      \/ q.pc = "insert" /\ x.pc = "cleanup"
    BY <1>4 DEF Window
  <2>. HAVE x.id = i /\ x.pc \in {"write", "insert", "describe", "cleanup"}
  <2>1. \/ Opens(q, x) \/ Writes(q, x) \/ Returns(q, x)
        \/ Asked(q, x) /\ q.pc = "insert" /\ x.pc = "cleanup"
    BY <1>2 DEF Moves, Begins, Closes, Records, Unlinks, Removes, GivesUp, Fetches, Misses,
                Copies, Ends
  <2>. QED
    BY <2>1 DEF Opens, Writes, Returns, Asked
<1>5. c \in Storing(i)' => c \in Window(i)' /\ x.pc = "write"
  BY DEF Storing
<1>6. \A d : /\ d \in Window(i)' => d \in Clients /\ (d # c => d \in Window(i))
             /\ d \in Window(i) => d \in Clients /\ (d # c => d \in Window(i)')
             /\ d \in Storing(i)' => d \in Clients /\ (d # c => d \in Storing(i))
             /\ d \in Storing(i) => d \in Clients /\ (d # c => d \in Storing(i)')
  BY <1>1 DEF Window, Storing, Clients
<1>7. Opens(q, x) /\ q.id = i => c \in Storing(i)' /\ c \in Window(i)' /\ c \notin Window(i)
  BY <1>3 DEF Opens, Asked, Window, Storing
<1>8. Truncated(i) => c \in Window(i)' /\ c \notin Window(i)
  BY <1>6 DEF Truncated
<1>9. q.id = i /\ q.pc \in {"write", "insert", "describe", "cleanup"} => c \in Window(i)
  BY <1>3 DEF Window
<1>10. c \in Window(i) => q.id = i /\ q.pc \in {"write", "insert", "describe", "cleanup"}
  BY DEF Window
<1>11. q.id = i /\ q.pc = "write" => c \in Storing(i)
  BY <1>9 DEF Storing
<1>12. Writes(q, x) \/ Returns(q, x) => q.pc = "write"
  BY DEF Writes, Returns
<1>13. Returns(q, x) => x.pc # "write"
  BY DEF Returns
<1>. QED
  BY <1>4, <1>5, <1>6, <1>7, <1>8, <1>9, <1>10, <1>11, <1>12, <1>13 DEF Truncated

LEMMA WholeStep ==
    ASSUME NamesInv, NEW c \in Clients, Step(c), NEW i \in Ids, ~Blurs(i),
           Whole(i) \/ Truncated(i)
    PROVE  Whole(i)'
<1>. DEFINE q == slots[c]
            x == slots'[c]
<1>1. Types /\ Moves(q, x) /\ Shape(c, q, minted)
  BY MoveLemma DEF NamesInv, Types
<1>2. \A d, e \in Storing(i)' : d = e
  BY DEF Blurs
<1>3. \A e \in Clients : e # c => slots'[e] = slots[e]
  BY <1>1, OthersLemma
<1>4. CASE Opens(q, x) /\ q.id = i
  <2>1. c \in Storing(i)' /\ dir'[i] = x.fd /\ i \in DOMAIN dir' /\ x.at = 0 /\ x.body \in Bodies
    BY <1>1, <1>4, WindowLemma DEF Opens, With, Shape
  <2>2. x.fd \in Live' /\ disk'[x.fd] = <<>>
    <3>1. x.fd \in Live'
      BY <2>1, LiveLemma
    <3>. QED
      BY <1>1, <1>4, <3>1, DiskLemma DEF Writes, Opens
  <2>3. Prefix(disk'[x.fd], x.body, x.at)
    BY <2>1, <2>2, PrefixLemma
  <2>. QED
    BY <1>2, <2>1, <2>3 DEF Whole
<1>5. CASE Writes(q, x) /\ q.id = i
  <2>1. Whole(i) /\ c \in Storing(i)
    <3>1. q.pc = "write" /\ ~Opens(q, x)
      BY <1>5 DEF Writes, Opens
    <3>. QED
      BY <1>1, <1>5, <3>1, WindowLemma
  <2>2. /\ \A d \in Storing(i) : d = c
        /\ i \in DOMAIN dir => dir[i] = q.fd
        /\ Prefix(disk[q.fd], q.body, q.at)
    BY <2>1 DEF Whole
  <2>3. c \in Storing(i)'
    BY <1>5, <2>1 DEF Storing, Window, Writes, Asked
  <2>4. \A d \in Storing(i)' : d = c
    BY <1>2, <2>3
  <2>5. q.fd # None /\ q.fd \in Live /\ q.fd \in Live'
    <3>1. q.fd # None
      BY <1>1, <1>5, NoneAssumption DEF Writes, Shape
    <3>. QED
      BY <1>5, <3>1, LiveLemma DEF Writes
  <2>6. disk'[q.fd] = Written(disk[q.fd], q.at, q.body[q.at + 1])
    BY <1>1, <1>5, <2>5, DiskLemma DEF Opens, Writes
  <2>7. disk[q.fd] \in Bytes /\ q.body \in Bodies /\ q.at \in Nat
    BY <1>1, <1>5, <2>5 DEF Types, Shape, Slot, Writes
  <2>8. Prefix(disk'[q.fd], q.body, q.at + 1)
    BY <1>5, <2>2, <2>6, <2>7, PrefixLemma DEF Writes
  <2>. QED
    BY <1>5, <2>2, <2>3, <2>4, <2>8 DEF Whole, Writes
<1>6. CASE ~(Opens(q, x) /\ q.id = i) /\ ~(Writes(q, x) /\ q.id = i)
  <2>1. Whole(i)
    BY <1>1, <1>6, WindowLemma
  <2>2. /\ c \notin Storing(i)' /\ \A e \in Storing(i)' : e \in Clients /\ e # c /\ e \in Storing(i)
        /\ \A e \in Storing(i) : e = c \/ e \in Storing(i)'
    BY <1>1, <1>6, WindowLemma
  <2>3. i \in DOMAIN dir' =>
          i \in DOMAIN dir /\ dir'[i] = dir[i] /\ disk'[dir[i]] = disk[dir[i]]
    BY <1>6, EntryLemma
  <2>4. ASSUME NEW e \in Storing(i)'
        PROVE  /\ i \in DOMAIN dir' => dir'[i] = slots'[e].fd
               /\ Prefix(disk'[slots'[e].fd], slots'[e].body, slots'[e].at)
    <3>1. e \in Storing(i) /\ e \in Clients /\ e # c /\ slots'[e] = slots[e]
      BY <1>3, <2>2
    <3>2. slots[e].pc = "write" /\ slots[e].id = i
      BY <3>1 DEF Storing, Window
    <3>3. disk'[slots[e].fd] = disk[slots[e].fd]
      BY <1>6, <3>1, <3>2, DescriptorLemma
    <3>. QED
      BY <2>1, <2>3, <3>1, <3>3 DEF Whole
  <2>5. ASSUME Storing(i)' = {}, i \in DOMAIN dir' PROVE disk'[dir'[i]] \in Bodies
    <3>1. CASE Storing(i) = {}
      BY <2>1, <2>3, <2>5, <3>1 DEF Whole
    <3>2. CASE c \in Storing(i)
      <4>1. q.pc = "write" /\ q.id = i
        BY <3>2 DEF Storing, Window
      <4>2. Returns(q, x)
        <5>1. ~Removes(q, x)
          BY <2>5, <3>2, <4>1 DEF Removes, Without, Blurs
        <5>. QED
          BY <1>1, <1>6, <4>1, <5>1
          DEF Moves, Begins, Closes, Opens, Records, Unlinks, GivesUp, Fetches, Misses,
              Copies, Ends
      <4>3. dir[i] = q.fd /\ Prefix(disk[q.fd], q.body, q.at) /\ q.body \in Bodies
        BY <1>1, <2>1, <2>3, <2>5, <3>2, <4>1 DEF Whole, Shape
      <4>4. dir[i] \in Live
        BY <2>3, <2>5, LiveLemma
      <4>5. disk[q.fd] = q.body
        BY <1>1, <4>2, <4>3, <4>4, PrefixLemma DEF Returns, Types
      <4>. QED
        BY <2>3, <2>5, <4>3, <4>5
    <3>. QED
      BY <2>2, <2>5, <3>1, <3>2
  <2>. QED
    BY <1>2, <2>4, <2>5 DEF Whole
<1>. QED
  BY <1>4, <1>5, <1>6

LEMMA DescribedStep ==
    ASSUME NamesInv, NEW c \in Clients, Step(c), NEW i \in Ids, ~Disturbed(i),
           Described(i) \/ Truncated(i)
    PROVE  Described(i)'
<1>. DEFINE q == slots[c]
            x == slots'[c]
<1>1. Types /\ Held /\ Moves(q, x) /\ Shape(c, q, minted)
  BY MoveLemma DEF NamesInv, Types
<1>2. /\ \A d, e \in Window(i)' : d = e
      /\ \A e \in Window(i) \ Window(i)' : slots'[e].reply = "ok"
  BY DEF Disturbed
<1>3. \A e \in Clients : e # c => slots'[e] = slots[e]
  BY <1>1, OthersLemma
<1>4. CASE Opens(q, x) /\ q.id = i
  <2>1. c \in Window(i)' /\ dir'[i] = x.fd /\ i \in DOMAIN dir' /\ x.at = 0 /\ x.body \in Bodies
        /\ x.pc = "write"
    BY <1>1, <1>4, WindowLemma DEF Opens, With, Shape, Storing
  <2>2. x.fd \in Live' /\ disk'[x.fd] = <<>>
    <3>1. x.fd \in Live'
      BY <2>1, LiveLemma
    <3>. QED
      BY <1>1, <1>4, <3>1, DiskLemma DEF Writes, Opens
  <2>3. Prefix(disk'[x.fd], x.body, x.at)
    BY <2>1, <2>2, PrefixLemma
  <2>. QED
    BY <1>2, <2>1, <2>3 DEF Described
<1>5. CASE Writes(q, x) /\ q.id = i
  <2>1. Described(i) /\ c \in Window(i) /\ q.pc = "write" /\ x.pc = "write"
    <3>1. q.pc = "write" /\ x.pc = "write" /\ q.id = i
      BY <1>5 DEF Writes
    <3>2. c \in Window(i)
      BY <1>1, <3>1, WindowLemma
    <3>3. ~Truncated(i)
      <4>1. \A d \in Window(i)' : d # c => d \in Window(i)
        BY <1>1, WindowLemma
      <4>. QED
        BY <3>2, <4>1 DEF Truncated
    <3>. QED
      BY <3>1, <3>2, <3>3
  <2>2. /\ \A d \in Window(i) : d = c
        /\ q.op = "create" \/ i \in DOMAIN rows => i \in DOMAIN dir /\ dir[i] = q.fd
        /\ Prefix(disk[q.fd], q.body, q.at)
    BY <2>1 DEF Described
  <2>3. c \in Window(i)'
    BY <1>5, <2>1 DEF Window, Writes, Asked
  <2>4. q.fd # None /\ q.fd \in Live /\ q.fd \in Live'
    <3>1. q.fd # None
      BY <1>1, <1>5, NoneAssumption DEF Writes, Shape
    <3>. QED
      BY <1>5, <3>1, LiveLemma DEF Writes
  <2>5. disk'[q.fd] = Written(disk[q.fd], q.at, q.body[q.at + 1])
    BY <1>1, <1>5, <2>4, DiskLemma DEF Opens, Writes
  <2>6. disk[q.fd] \in Bytes /\ q.body \in Bodies /\ q.at \in Nat
    BY <1>1, <1>5, <2>4 DEF Types, Shape, Slot, Writes
  <2>7. Prefix(disk'[q.fd], q.body, q.at + 1)
    BY <1>5, <2>2, <2>5, <2>6, PrefixLemma DEF Writes
  <2>8. dir' = dir /\ rows' = rows /\ x.fd = q.fd /\ x.op = q.op /\ x.body = q.body
        /\ x.at = q.at + 1
    BY <1>5 DEF Writes, Asked
  <2>9. Window(i)' # {} /\ \A d \in Window(i)' : d = c
    BY <1>2, <2>3
  <2>. QED
    BY <2>1, <2>2, <2>7, <2>8, <2>9 DEF Described
<1>6. CASE ~(Opens(q, x) /\ q.id = i) /\ ~(Writes(q, x) /\ q.id = i)
  <2>1. Described(i)
    BY <1>1, <1>6, WindowLemma
  <2>2. /\ \A e \in Window(i)' : e \in Clients /\ (e # c => e \in Window(i))
        /\ \A e \in Window(i) : e = c \/ e \in Window(i)'
        /\ c \in Window(i)' =>
              (Returns(q, x) \/ x.pc = "cleanup") /\ q.id = i /\ c \in Window(i)
    <3>1. Returns(q, x) => q.pc = "write"
      BY DEF Returns
    <3>. QED
      BY <1>1, <1>6, <3>1, WindowLemma
  <2>3. /\ i \in DOMAIN dir' =>
            i \in DOMAIN dir /\ dir'[i] = dir[i] /\ disk'[dir[i]] = disk[dir[i]]
        /\ i \in DOMAIN dir /\ ~(Removes(q, x) /\ q.id = i) => i \in DOMAIN dir'
    BY <1>6, EntryLemma
  <2>4. \/ i \notin DOMAIN rows'
        \/ Records(q, x) /\ q.id = i /\ rows'[i] = q.body /\ c \in Window(i)
        \/ i \in DOMAIN rows /\ rows'[i] = rows[i]
    <3>1. Records(q, x) => q.pc \in {"insert", "describe"}
      BY DEF Records
    <3>2. Records(q, x) /\ q.id = i => c \in Window(i)
      BY <1>1, <3>1, WindowLemma
    <3>3. \/ rows' = rows
          \/ Records(q, x) /\ rows' = With(rows, q.id, q.body)
          \/ rows' = Without(rows, q.id)
      BY <1>1, TablesLemma
    <3>. QED
      BY <3>2, <3>3 DEF With, Without
  \* A name is removed under another request or a row only by a disturbance.
  <2>5. ASSUME Removes(q, x), q.id = i
        PROVE  /\ i \notin DOMAIN rows' \/ c \in Window(i)
               /\ \A e \in Window(i) :
                     e = c \/ slots[e].op # "create" \/ slots[e].pc = "cleanup"
    <3>1. CASE q.pc \in {"write", "cleanup"}
      <4>1. c \in Window(i)
        BY <1>1, <2>5, <3>1, WindowLemma
      <4>. QED
        BY <2>1, <4>1 DEF Described
    <3>2. CASE q.pc = "erase"
      <4>1. i \notin DOMAIN rows
        BY <1>1, <2>5, <3>2 DEF Held
      <4>2. ASSUME NEW e \in Window(i), e # c, slots[e].pc # "cleanup"
            PROVE  slots[e].op # "create"
        <5>1. e \in Clients /\ slots[e].id = i /\ slots[e].pc \in {"write", "insert", "describe"}
          BY <4>2 DEF Window, Clients
        <5>2. slots[e].pc = "describe" => slots[e].op = "replace"
          BY <1>1, <5>1 DEF Types, Shape
        <5>3. slots[e].op = "create" => Holding(slots[e])
          BY <5>1, <5>2 DEF Holding
        <5>4. slots[e].op = "create" => slots[c].id # slots[e].id
          BY <1>1, <4>2, <5>1, <5>3 DEF Held, Alone
        <5>. QED
          BY <2>5, <5>1, <5>4
      <4>3. rows' = rows
        BY <2>5 DEF Removes
      <4>. QED
        BY <4>1, <4>2, <4>3
    <3>. QED
      BY <2>5, <3>1, <3>2 DEF Removes
  <2>6. ASSUME NEW e \in Window(i)', e # c
        PROVE  /\ slots'[e].pc # "cleanup" /\ (slots'[e].op = "create" \/ i \in DOMAIN rows') =>
                     /\ i \in DOMAIN dir'
                     /\ slots'[e].pc = "write" => dir'[i] = slots'[e].fd
                     /\ slots'[e].pc # "write" => disk'[dir'[i]] = slots'[e].body
               /\ slots'[e].pc = "write" => Prefix(disk'[slots'[e].fd], slots'[e].body, slots'[e].at)
    <3>1. e \in Clients /\ e \in Window(i) /\ slots'[e] = slots[e]
      BY <1>3, <2>2, <2>6
    <3>2. slots[e].id = i
      BY <3>1 DEF Window
    <3>3. c \notin Window(i)
      BY <2>1, <2>6, <3>1 DEF Described
    <3>4. slots[e].pc = "write" => disk'[slots[e].fd] = disk[slots[e].fd]
      BY <1>6, <2>6, <3>1, <3>2, DescriptorLemma
    <3>5. ASSUME slots[e].pc # "cleanup", slots[e].op = "create" \/ i \in DOMAIN rows'
          PROVE  /\ i \in DOMAIN dir'
                 /\ slots[e].pc = "write" => dir'[i] = slots[e].fd
                 /\ slots[e].pc # "write" => disk'[dir'[i]] = slots[e].body
      <4>1. slots[e].op = "create" \/ i \in DOMAIN rows
        <5>1. i \in DOMAIN rows' => i \in DOMAIN rows
          BY <2>4, <3>3
        <5>. QED
          BY <3>5, <5>1
      <4>2. /\ i \in DOMAIN dir
            /\ slots[e].pc = "write" => dir[i] = slots[e].fd
            /\ slots[e].pc # "write" => disk[dir[i]] = slots[e].body
        BY <2>1, <3>1, <3>5, <4>1 DEF Described
      <4>3. ~(Removes(q, x) /\ q.id = i)
        BY <2>5, <2>6, <3>1, <3>3, <3>5
      <4>. QED
        BY <2>3, <4>2, <4>3
    <3>. QED
      BY <2>1, <3>1, <3>4, <3>5 DEF Described
  <2>7. ASSUME c \in Window(i)', x.pc # "cleanup"
        PROVE  /\ x.pc # "write"
               /\ x.op = "create" \/ i \in DOMAIN rows' =>
                     i \in DOMAIN dir' /\ disk'[dir'[i]] = x.body
    <3>1. Returns(q, x) /\ q.id = i /\ c \in Window(i) /\ q.pc = "write"
      BY <2>2, <2>7 DEF Returns
    <3>2. rows' = rows /\ x.op = q.op /\ x.body = q.body /\ dir' = dir /\ x.pc # "write"
          /\ q.at = Len(q.body)
      BY <3>1 DEF Returns, Asked
    <3>3. ASSUME q.op = "create" \/ i \in DOMAIN rows
          PROVE  i \in DOMAIN dir /\ disk[dir[i]] = q.body
      <4>1. i \in DOMAIN dir /\ dir[i] = q.fd /\ Prefix(disk[q.fd], q.body, q.at)
        BY <2>1, <3>1, <3>3 DEF Described
      <4>2. disk[q.fd] \in Bytes /\ q.body \in Bodies
        <5>1. dir[i] \in Live
          BY <4>1, LiveLemma
        <5>. QED
          BY <1>1, <3>1, <4>1, <5>1 DEF Types, Shape
      <4>. QED
        BY <3>2, <4>1, <4>2, PrefixLemma
    <3>. QED
      BY <2>3, <3>2, <3>3
  <2>8. ASSUME Window(i)' = {}, i \in DOMAIN rows'
        PROVE  i \in DOMAIN dir' /\ disk'[dir'[i]] = rows'[i]
    <3>1. CASE Window(i) = {}
      <4>1. i \in DOMAIN rows /\ rows'[i] = rows[i]
        BY <2>4, <2>8, <3>1
      <4>2. i \in DOMAIN dir /\ disk[dir[i]] = rows[i]
        BY <2>1, <3>1, <4>1 DEF Described
      <4>3. ~(Removes(q, x) /\ q.id = i)
        BY <2>5, <2>8, <3>1
      <4>. QED
        BY <2>3, <4>1, <4>2, <4>3
    <3>2. CASE c \in Window(i)
      <4>1. x.reply = "ok" /\ q.id = i /\ q.pc \in {"write", "insert", "describe", "cleanup"}
        BY <1>1, <1>2, <2>8, <3>2, WindowLemma
      <4>2. ~Returns(q, x)
        <5>1. Returns(q, x) => c \in Window(i)'
          BY <3>2, <4>1 DEF Returns, Window, Asked
        <5>. QED
          BY <2>8, <5>1
      <4>3. Records(q, x)
        BY <1>1, <1>6, <4>1, <4>2
        DEF Moves, Begins, Closes, Opens, Unlinks, Removes, GivesUp, Fetches, Misses, Copies, Ends
      <4>4. q.op = "create" \/ i \in DOMAIN rows
        BY <1>1, <4>1, <4>3 DEF Records, Shape
      <4>5. q.pc \notin {"write", "cleanup"} /\ dir' = dir /\ rows'[i] = q.body
        BY <4>1, <4>3 DEF Records, With
      <4>6. i \in DOMAIN dir /\ disk[dir[i]] = q.body
        BY <2>1, <3>2, <4>4, <4>5 DEF Described
      <4>. QED
        BY <2>3, <4>5, <4>6
    <3>. QED
      BY <2>2, <2>8, <3>1, <3>2
  <2>. QED
    BY <1>2, <2>6, <2>7, <2>8 DEF Described
<1>. QED
  BY <1>4, <1>5, <1>6

FilesInv ==
    /\ NamesInv
    /\ \A i \in Ids \ blurred : Whole(i)
    /\ \A i \in Ids \ torn : Described(i)

LEMMA FilesInit == Init1 => FilesInv
<1>. SUFFICES ASSUME Init1 PROVE FilesInv
  OBVIOUS
<1>1. \A c \in Clients : slots[c].pc = "idle"
  BY DEF Init1, Init, Idle
<1>2. \A i : Window(i) = {} /\ Storing(i) = {}
  BY <1>1 DEF Window, Storing, Clients
<1>. QED
  BY <1>2, NamesInit DEF FilesInv, Whole, Described, Init1, Init

LEMMA FilesRestart ==
    ASSUME FilesInv, Restart, NEW i \in Ids
    PROVE  /\ ~Truncated(i)
           /\ Whole(i) /\ ~Blurs(i) => Whole(i)'
           /\ Described(i) /\ ~Disturbed(i) => Described(i)'
<1>1. Types
  BY DEF FilesInv, NamesInv
<1>2. Window(i)' = {} /\ Storing(i)' = {}
  <2>1. \A c \in Clients : slots'[c].pc \in {"idle", "done"}
    BY <1>1, RestartLemma
  <2>. QED
    BY <2>1 DEF Window, Storing, Clients
<1>3. i \in DOMAIN dir' => i \in DOMAIN dir /\ dir'[i] = dir[i] /\ disk'[dir[i]] = disk[dir[i]]
  <2>1. dir' = dir /\ \A n \in Live' : disk'[n] = disk[n]
    BY <1>1, RestartLemma
  <2>2. i \in DOMAIN dir' => dir'[i] \in Live'
    BY LiveLemma
  <2>. QED
    BY <2>1, <2>2
<1>4. \A c \in Window(i) : slots'[c] = Idle /\ c \in Writers
  <2>1. \A c \in Window(i) : InFlight(slots[c]) /\ c \in Clients /\ c \in Writers
    BY DEF Window, InFlight, Clients
  <2>. QED
    BY <1>1, <2>1, RestartLemma
<1>5. ASSUME ~Blurs(i) PROVE Storing(i) = {}
  BY <1>4, <1>5 DEF Blurs, Storing, Idle
<1>6. ASSUME ~Disturbed(i) PROVE Window(i) = {}
  BY <1>2, <1>4, <1>6, NoneAssumption DEF Disturbed, Idle
<1>7. rows' = rows /\ dir' = dir
  BY <1>1, RestartLemma
<1>8. ~Truncated(i)
  BY <1>2 DEF Truncated
<1>9. ASSUME Whole(i), ~Blurs(i) PROVE Whole(i)'
  BY <1>2, <1>3, <1>5, <1>9 DEF Whole
<1>10. ASSUME Described(i), ~Disturbed(i) PROVE Described(i)'
  BY <1>2, <1>3, <1>6, <1>7, <1>10 DEF Described
<1>. QED
  BY <1>8, <1>9, <1>10

LEMMA FilesNext == FilesInv /\ [Next]_vars => FilesInv'
<1>. SUFFICES ASSUME FilesInv, [Next]_vars PROVE FilesInv'
  OBVIOUS
<1>1. NamesInv /\ NamesInv'
  BY NamesNext DEF FilesInv
<1>2. CASE UNCHANGED vars
  <2>1. \A i : (Whole(i) => Whole(i)') /\ (Described(i) => Described(i)')
    BY <1>2, StutterLemma DEF Whole, Described, Storing, Window
  <2>. QED
    BY <1>1, <1>2, <2>1, StutterLemma DEF FilesInv
<1>3. CASE Next
  <2>1. Restart \/ \E c \in Clients : Step(c)
    BY <1>3 DEF Next, LNext, Step, Clients
  <2>2. ASSUME NEW i \in Ids \ blurred' PROVE Whole(i)'
    <3>1. ~Blurs(i) /\ (i \notin blurred \/ Truncated(i))
      BY <1>3, <2>2 DEF Next
    <3>2. Whole(i) \/ Truncated(i)
      BY <3>1 DEF FilesInv
    <3>. QED
      BY <1>1, <2>1, <3>1, <3>2, FilesRestart, WholeStep
  <2>3. ASSUME NEW i \in Ids \ torn' PROVE Described(i)'
    <3>1. ~Disturbed(i) /\ (i \notin torn \/ Truncated(i))
      BY <1>3, <2>3 DEF Next
    <3>2. Described(i) \/ Truncated(i)
      BY <3>1 DEF FilesInv
    <3>. QED
      BY <1>1, <2>1, <3>1, <3>2, FilesRestart, DescribedStep
  <2>. QED
    BY <1>1, <2>2, <2>3 DEF FilesInv
<1>. QED
  BY <1>2, <1>3

\* What is found under a name that nobody is writing is one body from its first
\* piece to its last, unless two Puts or a crash have mixed it, or a failed body
\* could not be removed (local.go:29-43).
THEOREM NamedFilesAreWhole == Spec => []FilesAreWhole
<1>1. FilesInv => FilesAreWhole
  BY DEF FilesInv, NamesInv, Types, FilesAreWhole, Whole
<1>. QED
  BY <1>1, FilesInit, FilesNext, PTL DEF Spec

\* The row of a file describes the bytes under its name whenever no replacement
\* is under way and the last one was not disturbed: deletes, failed creates and
\* crashes never part the two (service.go:391-409, local.go:29-43).
THEOREM LocalRowsDescribeFiles == Spec => []RowDescribesFile
<1>1. FilesInv => RowDescribesFile
  BY DEF FilesInv, RowDescribesFile, Described, Calm
<1>. QED
  BY <1>1, FilesInit, FilesNext, PTL DEF Spec

----------------------------------------------------------------------------
(* What a download delivers.                                                *)

\* s is b's pieces from the one after the first m to the kth.
Slice(s, b, m, k) == Len(s) = k - m /\ \A j \in 1..(k - m) : s[j] = b[m + j]

LEMMA AppendLemma ==
    ASSUME NEW s \in Seq(Places), NEW x \in Places
    PROVE  /\ Len(Append(s, x)) = Len(s) + 1 /\ Append(s, x)[Len(s) + 1] = x
           /\ \A j \in 1..Len(s) : Append(s, x)[j] = s[j]
<1>1. Len(Append(s, x)) = Len(s) + 1
  BY AppendProperties
<1>2. Append(s, x)[Len(s) + 1] = x
  BY AppendProperties
<1>3. \A j \in 1..Len(s) : Append(s, x)[j] = s[j]
  BY AppendProperties
<1>. QED
  BY <1>1, <1>2, <1>3

\* A piece copied at the end of a slice makes it one longer.
LEMMA GrowLemma ==
    ASSUME NEW b \in Bodies, NEW m \in Nat, NEW k \in Nat, m <= k, k < Len(b),
           NEW s \in Bytes, Slice(s, b, m, k)
    PROVE  Slice(Append(s, b[k + 1]), b, m, k + 1)
<1>1. s \in Seq(Places) /\ Len(s) = k - m /\ \A j \in 1..(k - m) : s[j] = b[m + j]
  BY DEF Slice, Bytes
<1>. PICK piece \in Places : piece = b[k + 1]
  BY BodyLemma
<1>. DEFINE t == Append(s, piece)
<1>2. Len(t) = Len(s) + 1 /\ t[Len(s) + 1] = piece /\ \A j \in 1..Len(s) : t[j] = s[j]
  BY <1>1, AppendLemma
<1>. HIDE DEF t
<1>3. ASSUME NEW j \in 1..(k + 1 - m) PROVE t[j] = b[m + j]
  <2>1. j = k - m + 1 \/ j \in 1..(k - m)
    OBVIOUS
  <2>2. j = k - m + 1 => m + j = k + 1
    OBVIOUS
  <2>. QED
    BY <1>1, <1>2, <2>1, <2>2
<1>4. Len(t) = k + 1 - m
  BY <1>1, <1>2
<1>. QED
  BY <1>3, <1>4 DEF Slice, t

LEMMA SliceLemma ==
    ASSUME NEW b \in Bodies, NEW m \in Nat, NEW k \in Nat, m <= k, k <= Len(b),
           NEW s \in Bytes, Slice(s, b, m, k)
    PROVE  s = SubSeq(b, m + 1, k)
<1>1. Len(b) \in Nat /\ \A j \in 1..Len(b) : b[j] \in Places
  BY BodyLemma
<1>2. s \in Seq(Places) /\ Len(s) = k - m /\ \A j \in 1..(k - m) : s[j] = b[m + j]
  BY DEF Slice, Bytes
<1>. DEFINE t == SubSeq(b, m + 1, k)
<1>3. /\ t \in Seq(Places) /\ Len(t) = (IF m + 1 <= k THEN k - (m + 1) + 1 ELSE 0)
      /\ \A j \in 1..(k - (m + 1) + 1) : t[j] = b[m + 1 + j - 1]
  <2>1. \A j \in (m + 1)..k : b[j] \in Places
    BY <1>1
  <2>. QED
    BY <2>1, SubSeqProperties
<1>. HIDE DEF t
<1>4. Len(t) = k - m
  BY <1>3
<1>5. \A j \in 1..(k - m) : t[j] = b[m + j]
  BY <1>3
<1>6. s = t
  BY <1>2, <1>3, <1>4, <1>5, SeqEqual
<1>. QED
  BY <1>6 DEF t

\* A download whose id nothing has been stored under since it began: the file it
\* will open or has open is what it was told, and it has its part of it so far.
Exact(c) ==
    LET q == slots[c] IN
    /\ q.id \in Ids /\ q.pc \in {"fetch", "copy", "done"}
    /\ q.pc # "done" =>
          /\ q.said \in Bodies /\ q.from <= q.upto /\ q.upto <= Len(q.said)
          /\ q.op \in {"read", "range"} /\ (q.op = "read" => q.upto = Len(q.said))
    /\ q.pc = "fetch" => q.got = <<>> /\ (q.id \in DOMAIN dir => disk[dir[q.id]] = q.said)
    /\ q.pc = "copy" => /\ disk[q.fd] = q.said /\ q.from <= q.at /\ q.at <= q.upto
                        /\ Slice(q.got, q.said, q.from, q.at)
    /\ q.pc = "done" =>
          \/ q.reply = "ok" /\ q.got = SubSeq(q.said, q.from + 1, q.upto)
          \/ q.reply = "cut" /\ \E k \in q.from..q.upto : q.got = SubSeq(q.said, q.from + 1, k)
          \/ q.reply = "error" /\ q.got = <<>>
          \/ q.reply = "missing" /\ q.id \notin DOMAIN rows

LEMMA ExactOthers ==
    ASSUME NamesInv, NEW c \in Clients, Exact(c), NEW d \in Clients, d # c, Step(d),
           slots[c].pc # "done" => slots[c].id \in Calm \cap Calm'
    PROVE  Exact(c)'
<1>. DEFINE q == slots[c]
            i == slots[c].id
            y == slots[d]
<1>1. Types /\ slots'[c] = q
  BY OthersLemma DEF NamesInv
<1>2. CASE q.pc = "done"
  <2>1. ASSUME i \notin DOMAIN rows PROVE i \notin DOMAIN rows'
    <3>1. CASE Records(y, slots'[d]) /\ y.id = i
      <4>1. y.pc = "insert"
        BY <2>1, <3>1 DEF Records
      <4>2. Holding(y)
        BY <1>1, <4>1 DEF Types, Shape, Holding
      <4>. QED
        BY <3>1, <4>2 DEF NamesInv, Held, Alone
    <3>2. CASE ~(Records(y, slots'[d]) /\ y.id = i)
      <4>1. \/ rows' = rows
            \/ Records(y, slots'[d]) /\ rows' = With(rows, y.id, y.body)
            \/ rows' = Without(rows, y.id)
        BY <1>1, TablesLemma
      <4>. QED
        BY <2>1, <3>2, <4>1 DEF With, Without
    <3>. QED
      BY <3>1, <3>2
  <2>. QED
    BY <1>1, <1>2, <2>1 DEF Exact
<1>3. CASE q.pc # "done"
  <2>1. i \in Ids /\ Window(i) = {} /\ Window(i)' = {}
    BY <1>1, <1>3 DEF Calm
  <2>2. ~(Opens(y, slots'[d]) /\ y.id = i) /\ ~(Writes(y, slots'[d]) /\ y.id = i)
    <3>1. Writes(y, slots'[d]) => y.pc = "write"
      BY DEF Writes
    <3>2. Opens(y, slots'[d]) /\ y.id = i => Window(i)' # {}
      BY <1>1, WindowLemma DEF Storing
    <3>. QED
      BY <1>1, <2>1, <3>1, <3>2, WindowLemma
  <2>3. i \in DOMAIN dir' => i \in DOMAIN dir /\ disk'[dir'[i]] = disk[dir[i]]
    BY <2>2, EntryLemma
  <2>4. q.pc = "copy" => disk'[q.fd] = disk[q.fd]
    BY <2>2, DescriptorLemma
  <2>. QED
    BY <1>1, <1>3, <2>3, <2>4 DEF Exact
<1>. QED
  BY <1>2, <1>3

LEMMA ExactOwn ==
    ASSUME FilesInv, NEW c \in Clients, c \in Readers, slots[c].pc = "idle" \/ Exact(c), Step(c),
           slots'[c].id # None,
           slots[c].pc # "done" => slots'[c].id \in Calm \cap Calm'
    PROVE  Exact(c)'
<1>. DEFINE q == slots[c]
            x == slots'[c]
<1>1. NamesInv /\ Types /\ Moves(q, x) /\ Shape(c, q, minted) /\ q \in Slot
  BY MoveLemma DEF FilesInv, NamesInv, Types, Shape
<1>2. q.pc \in {"idle", "fetch", "copy", "done"}
  BY <1>1 DEF Shape
<1>3. ~Closes(q, x)
  BY DEF Closes
<1>4. Begins(q, x) \/ Fetches(q, x) \/ Misses(q, x) \/ Copies(q, x) \/ Ends(q, x)
  BY <1>1, <1>2, <1>3
  DEF Moves, Opens, Writes, Returns, Records, Unlinks, Removes, GivesUp
<1>5. CASE Begins(q, x)
  <2>1. Shape(c, x, minted')
    BY <1>1, ShapeLemma
  <2>2. x.pc \in {"idle", "fetch", "copy", "done"}
    BY <2>1 DEF Shape
  <2>3. /\ x.pc = "fetch" /\ x.op \in {"read", "range"} /\ x.id \in DOMAIN rows
        /\ x.said = rows[x.id] /\ x.from <= x.upto /\ x.upto <= Len(x.said)
        /\ x.op = "read" => x.upto = Len(x.said)
        /\ x.got = <<>> /\ q.pc = "idle"
    BY <1>5, <2>2 DEF Begins
  <2>4. dir' = dir /\ disk' = disk
    BY <1>5 DEF Begins, Same
  <2>5. x.id \in Ids /\ x.id \notin torn /\ Window(x.id) = {}
    BY <2>3 DEF Calm
  <2>6. disk[dir[x.id]] = x.said
    BY <2>3, <2>5 DEF FilesInv, Described
  <2>7. x.said \in Bodies
    BY <1>1, <2>3 DEF Types
  <2>. QED
    BY <2>3, <2>4, <2>5, <2>6, <2>7 DEF Exact
<1>6. CASE Fetches(q, x)
  <2>1. Exact(c) /\ q.pc = "fetch"
    BY <1>6 DEF Fetches
  <2>2. disk[x.fd] = x.said /\ disk' = disk /\ x.got = <<>> /\ x.at = x.from
    BY <1>6, <2>1 DEF Fetches, Exact, Same, Asked
  <2>3. x.from \in Nat
    BY <1>1, <1>6 DEF Fetches, Slot
  <2>4. Slice(x.got, x.said, x.from, x.at)
    BY <2>2, <2>3, EmptySeq DEF Slice
  <2>. QED
    BY <1>6, <2>1, <2>2, <2>3, <2>4 DEF Fetches, Exact, Asked
<1>7. CASE Misses(q, x)
  <2>1. Exact(c) /\ q.pc = "fetch"
    BY <1>7 DEF Misses
  <2>2. x.id = q.id /\ q.id \in Ids /\ q.id \notin torn /\ Window(q.id) = {}
    BY <1>7, <2>1 DEF Misses, Asked, Exact, Calm
  <2>3. CASE q.id \notin DOMAIN dir /\ x.reply = "missing"
    <3>1. q.id \notin DOMAIN rows
      BY <2>2, <2>3 DEF FilesInv, Described
    <3>. QED
      BY <1>7, <2>2, <2>3, <3>1 DEF Misses, Exact, Same
  <2>4. CASE x.reply = "error" /\ x.got = q.got
    <3>1. q.got = <<>>
      BY <2>1 DEF Exact
    <3>. QED
      BY <1>7, <2>2, <2>4, <3>1 DEF Misses, Exact
  <2>. QED
    BY <1>7, <2>3, <2>4 DEF Misses
<1>8. CASE Copies(q, x)
  <2>1. Exact(c) /\ q.pc = "copy"
    BY <1>8 DEF Copies
  <2>2. /\ q.said \in Bodies /\ q.from \in Nat /\ q.at \in Nat /\ q.upto \in Nat /\ q.got \in Bytes
        /\ Len(q.said) \in Nat
    BY <1>1, <2>1, BodyLemma DEF Exact, Slot
  <2>3. disk[q.fd] = q.said /\ q.from <= q.at /\ q.at <= q.upto /\ q.upto <= Len(q.said)
        /\ Slice(q.got, q.said, q.from, q.at)
    BY <2>1 DEF Exact
  <2>4. q.at < q.upto
    BY <1>8, <2>1, <2>2, <2>3 DEF Copies, GoesOn, Exact
  <2>5. Slice(Append(q.got, q.said[q.at + 1]), q.said, q.from, q.at + 1)
    BY <2>2, <2>3, <2>4, GrowLemma
  <2>6. q.from <= q.at + 1 /\ q.at + 1 <= q.upto
    BY <2>2, <2>3, <2>4
  <2>. QED
    BY <1>8, <2>1, <2>3, <2>5, <2>6 DEF Copies, Exact, Asked, Same
<1>9. CASE Ends(q, x)
  <2>1. Exact(c) /\ q.pc = "copy"
    BY <1>9 DEF Ends
  <2>2. /\ q.said \in Bodies /\ q.from \in Nat /\ q.at \in Nat /\ q.upto \in Nat /\ q.got \in Bytes
        /\ Len(q.said) \in Nat
    BY <1>1, <2>1, BodyLemma DEF Exact, Slot
  <2>3. disk[q.fd] = q.said /\ q.from <= q.at /\ q.at <= q.upto /\ q.upto <= Len(q.said)
        /\ Slice(q.got, q.said, q.from, q.at) /\ (q.op = "read" => q.upto = Len(q.said))
        /\ q.op \in {"read", "range"}
    BY <2>1 DEF Exact
  <2>4. q.got = SubSeq(q.said, q.from + 1, q.at)
    <3>. PICK b \in Bodies, m \in Nat, k \in Nat, s \in Bytes :
              b = q.said /\ m = q.from /\ k = q.at /\ s = q.got
      BY <2>2
    <3>1. m <= k /\ k <= Len(b) /\ Slice(s, b, m, k)
      BY <2>2, <2>3
    <3>2. s = SubSeq(b, m + 1, k)
      BY <3>1, SliceLemma
    <3>. QED
      BY <3>2
  <2>5. x.pc = "done" /\ x.id \in Ids /\ x.got = SubSeq(x.said, x.from + 1, q.at)
        /\ x.from = q.from /\ x.upto = q.upto
    BY <1>9, <2>1, <2>4 DEF Ends, Asked, Exact
  <2>6. CASE x.reply = "cut"
    <3>1. q.at \in x.from..x.upto
      BY <2>2, <2>3, <2>5
    <3>. QED
      BY <2>5, <2>6, <3>1 DEF Exact
  <2>7. CASE ~GoesOn(q) /\ x.reply = (IF q.op = "range" /\ q.at < q.upto THEN "short" ELSE "ok")
    <3>1. q.at = q.upto
      BY <2>2, <2>3, <2>7 DEF GoesOn
    <3>2. x.reply = "ok"
      BY <2>2, <2>7, <3>1
    <3>. QED
      BY <2>5, <3>1, <3>2 DEF Exact
  <2>. QED
    BY <1>9, <2>6, <2>7 DEF Ends
<1>. QED
  BY <1>4, <1>5, <1>6, <1>7, <1>8, <1>9

ExactInv == FilesInv /\ calm \subseteq Readers /\ \A c \in calm : Exact(c)

LEMMA ExactNext == ExactInv /\ [Next]_vars => ExactInv'
<1>. SUFFICES ASSUME ExactInv, [Next]_vars PROVE ExactInv'
  OBVIOUS
<1>1. FilesInv /\ FilesInv' /\ NamesInv /\ Types
  BY FilesNext DEF ExactInv, FilesInv, NamesInv
<1>2. CASE UNCHANGED vars
  <2>1. \A c : Exact(c) => Exact(c)'
    BY <1>2, StutterLemma DEF Exact
  <2>. QED
    BY <1>1, <1>2, <2>1, StutterLemma DEF ExactInv
<1>3. CASE Next
  <2>1. Restart \/ \E d \in Clients : Step(d)
    BY <1>3 DEF Next, LNext, Step, Clients
  <2>2. ASSUME NEW c \in calm' PROVE Exact(c)'
    <3>1. /\ c \in Readers /\ c \in Clients /\ slots'[c].id # None
          /\ slots[c].pc = "idle" \/ c \in calm
          /\ slots[c].pc # "done" => slots'[c].id \in Calm \cap Calm'
      BY <1>3, <2>2 DEF Next, Clients
    <3>2. slots[c].pc = "idle" \/ Exact(c)
      BY <3>1 DEF ExactInv
    <3>3. slots[c].pc = "idle" => slots[c].id = None
      BY <1>1, <3>1 DEF Types, Shape
    <3>4. CASE Restart
      <4>1. slots'[c] = slots[c] /\ slots[c].pc \in {"idle", "done"}
        BY <1>1, <3>1, <3>4, RestartLemma DEF Idle
      <4>2. Exact(c) /\ slots[c].pc = "done" /\ rows' = rows
        BY <1>1, <3>1, <3>2, <3>3, <3>4, <4>1, RestartLemma
      <4>. QED
        BY <4>1, <4>2 DEF Exact
    <3>5. ASSUME NEW d \in Clients, Step(d) PROVE Exact(c)'
      <4>1. CASE d = c
        BY <1>1, <3>1, <3>2, <3>5, <4>1, ExactOwn
      <4>2. CASE d # c
        <5>1. slots'[c] = slots[c]
          BY <1>1, <3>1, <3>5, <4>2, OthersLemma
        <5>. QED
          BY <1>1, <3>1, <3>2, <3>3, <3>5, <4>2, <5>1, ExactOthers
      <4>. QED
        BY <4>1, <4>2
    <3>. QED
      BY <2>1, <3>4, <3>5
  <2>3. calm' \subseteq Readers
    BY <1>3 DEF Next
  <2>. QED
    BY <1>1, <2>2, <2>3 DEF ExactInv
<1>. QED
  BY <1>2, <1>3

\* A download during which nothing is stored under its id delivers what its row
\* described when it began, all that was asked for and nothing else, or is cut off
\* in the middle of that, or fails before the first piece; a delete at the same
\* time makes it find no file or changes nothing (local.go:45-69).
THEOREM LocalDownloadsAreExact == Spec => []CalmDownloadsAreExact
<1>1. ExactInv => CalmDownloadsAreExact
  BY DEF ExactInv, Exact, CalmDownloadsAreExact
<1>2. Init1 => ExactInv
  BY FilesInit DEF ExactInv, Init1
<1>. QED
  BY <1>1, <1>2, ExactNext, PTL DEF Spec
=============================================================================
