--------------------------- MODULE ListingProofs ---------------------------
(***************************************************************************)
(* What holds of paging, for every finite set of ids, every set of users,   *)
(* all page sizes and every bound of the clock.                             *)
(***************************************************************************)
EXTENDS Listing, SequenceTheorems, FiniteSetTheorems, TLAPS

----------------------------------------------------------------------------
(* The inductive invariant.                                                 *)

\* The table: a row is inserted once, and what is kept is the reader's.
Rows ==
    /\ clock \in 0..MaxTime /\ drawn \subseteq Ids
    /\ DOMAIN uploads \subseteq drawn /\ \A i \in DOMAIN uploads : uploads[i] \in File
    /\ DOMAIN files \subseteq drawn /\ \A i \in DOMAIN files : files[i] \in File
    /\ DOMAIN uploads \cap DOMAIN files = {}
    /\ kept \subseteq Owned(Reader)

\* What a reader has seen: rows that were inserted, each once, newest first.
Shown(seen) ==
    /\ seen \in Seq(Ids)
    /\ \A n \in DOMAIN seen : seen[n] \in drawn \ DOMAIN uploads
    /\ IsInjective(seen)
    /\ \A m, n \in DOMAIN seen :
           (m < n /\ {seen[m], seen[n]} \subseteq DOMAIN files) => Older(At(seen[n]), At(seen[m]))
    /\ \A n \in DOMAIN seen : seen[n] \in DOMAIN files => files[seen[n]].owner = Reader

\* Position p parts the files that were seen from those still to come.
Parts(p, seen) ==
    /\ \A n \in DOMAIN seen : seen[n] \in DOMAIN files => ~Older(At(seen[n]), p)
    /\ \A i \in kept \ ToSet(seen) : Older(At(i), p)

\* Where the walk goes on: at the position of its next query ...
AtPosition ==
    IF walk.after = None THEN walk.pc = "query" /\ walk.seen = <<>> ELSE Parts(walk.after, walk.seen)

\* ... or at the file its cursor names, the last one seen if any was.
AtCursor ==
    /\ walk.interface = "api" /\ walk.cursor \in Ids
    /\ walk.seen # <<>> => walk.cursor \in ToSet(walk.seen)
    /\ walk.seen = <<>> => kept = {}
    /\ walk.cursor \in DOMAIN files => Parts(At(walk.cursor), walk.seen)

Progress ==
    /\ walk.pc = "idle" => walk.seen = <<>>
    /\ walk.pc # "idle" => walk.size \in Limits /\ walk.interface \in {"api", "web"}
    /\ walk.pc = "query" => AtPosition
    /\ walk.pc = "page" /\ walk.interface = "web" => AtPosition
    /\ walk.pc = "page" /\ walk.interface = "api" => AtCursor
    /\ walk.pc = "cursor" => AtCursor
    /\ walk.pc = "refused" /\ walk.seen # <<>> =>
           walk.cursor \in ToSet(walk.seen) \ DOMAIN files
    /\ walk.pc = "end" => NothingIsMissed

Fields ==
    /\ walk.interface \in {"api", "web", None}
    /\ walk.pc \in {"idle", "cursor", "query", "page", "end", "refused", "failed"}
    /\ walk.after \in Position \cup {None}
    /\ walk.cursor \in Ids \cup {None}
    /\ walk.size \in Limits \cup {None}
    /\ walk = [interface |-> walk.interface, pc |-> walk.pc, after |-> walk.after,
               cursor |-> walk.cursor, size |-> walk.size, seen |-> walk.seen]

PagingInv == Rows /\ Fields /\ Shown(walk.seen) /\ Progress

LEMMA PagingInit == Init => PagingInv
BY IdAssumption, EmptySeq DEF Init, PagingInv, Rows, Fields, Shown, Progress, Idle,
   Owned, IsInjective

----------------------------------------------------------------------------
(* The order of the pages.                                                  *)

LEMMA OlderLemma ==
    ASSUME NEW p \in Position, NEW q \in Position
    PROVE  /\ ~Older(p, p)
           /\ Older(p, q) => ~Older(q, p)
           /\ p = q \/ Older(p, q) \/ Older(q, p)
           /\ \A r \in Position : Older(p, q) /\ ~Older(r, q) => Older(p, r)
<1>1. \A r \in Position : r.created \in Nat /\ r.id \in Nat
  <2>1. 0..MaxTime \subseteq Nat /\ Ids \subseteq Nat
    BY IdAssumption
  <2>2. \A r \in Position : r.created \in 0..MaxTime /\ r.id \in Ids
    BY DEF Position
  <2>. QED
    BY <2>1, <2>2
<1>2. p.created = q.created /\ p.id = q.id => p = q
  BY DEF Position
<1>3. p = q \/ Older(p, q) \/ Older(q, p)
  BY <1>1, <1>2 DEF Older
<1>. QED
  BY <1>1, <1>3 DEF Older

LEMMA AtLemma ==
    ASSUME Rows, NEW i \in DOMAIN files
    PROVE  At(i) \in Position
BY DEF Rows, At, Position, File

----------------------------------------------------------------------------
(* The fields stay in bounds: a walk never sees more files than there are.  *)

LEMMA BoundLemma ==
    ASSUME NEW s, Shown(s)
    PROVE  Len(s) \in 0..Cardinality(Ids) /\ s \in SeqOf(Ids, Cardinality(Ids))
<1>1. Len(s) \in Nat /\ s \in [1..Len(s) -> Ids]
  BY LenProperties DEF Shown
<1>2. s \in Injection(1..Len(s), Ids)
  BY <1>1 DEF Shown, Injection
<1>3. Cardinality(1..Len(s)) <= Cardinality(Ids)
  BY <1>2, FS_Injection, IdAssumption
<1>4. Cardinality(1..Len(s)) = Len(s)
  <2>1. PICK n \in Nat : n = Len(s)
    BY <1>1
  <2>2. Cardinality(1..n) = n
    <3>1. Cardinality(1..n) = IF 1 > n THEN 0 ELSE n - 1 + 1
      BY FS_Interval
    <3>. QED
      BY <3>1
  <2>. QED
    BY <2>1, <2>2
<1>5. Cardinality(Ids) \in Nat
  BY FS_CardinalityType, IdAssumption
<1>6. Len(s) \in 0..Cardinality(Ids)
  BY <1>1, <1>3, <1>4, <1>5
<1>. QED
  BY <1>1, <1>6 DEF SeqOf

LEMMA TypeLemma == PagingInv => TypeOK
<1>. SUFFICES ASSUME PagingInv PROVE TypeOK
  OBVIOUS
<1>1. walk.seen \in SeqOf(Ids, Cardinality(Ids))
  BY BoundLemma DEF PagingInv
<1>2. walk \in Walk
  BY <1>1 DEF PagingInv, Fields, Walk
<1>. QED
  BY <1>2 DEF PagingInv, Rows, TypeOK, Owned

----------------------------------------------------------------------------
(* What the table's own steps can do to a walk: nothing to what was seen.   *)

\* A row that was inserted stays as it is or goes, and what is kept stays.
LEMMA TableLemma ==
    ASSUME PagingInv, Table
    PROVE  /\ Rows'
           /\ walk' = walk
           /\ drawn \subseteq drawn'
           /\ \A i \in drawn \ DOMAIN uploads :
                  /\ i \notin DOMAIN uploads'
                  /\ i \in DOMAIN files' => i \in DOMAIN files /\ files'[i] = files[i]
           /\ kept' \subseteq kept
           /\ \A i \in kept' : i \in drawn \ DOMAIN uploads /\ i \in DOMAIN files'
<1>. USE DEF PagingInv, Rows, Owned
<1>1. CASE Tick
  BY <1>1, IdAssumption DEF Tick
<1>2. CASE Stamp
  <2>. PICK i \in Ids \ drawn, u \in Users :
          /\ drawn' = drawn \cup {i}
          /\ uploads' = [j \in DOMAIN uploads \cup {i} |->
                            IF j = i THEN [owner |-> u, created |-> clock] ELSE uploads[j]]
          /\ UNCHANGED <<clock, files, walk, kept>>
    BY <1>2 DEF Stamp
  <2>1. DOMAIN uploads' = DOMAIN uploads \cup {i}
    OBVIOUS
  <2>2. \A j \in DOMAIN uploads' : uploads'[j] \in File
    BY DEF File
  <2>. QED
    BY <2>1, <2>2
<1>3. CASE Insert
  <2>. PICK i \in DOMAIN uploads :
          /\ files' = [j \in DOMAIN files \cup {i} |-> IF j = i THEN uploads[i] ELSE files[j]]
          /\ uploads' = [j \in DOMAIN uploads \ {i} |-> uploads[j]]
          /\ UNCHANGED <<clock, drawn, walk, kept>>
    BY <1>3 DEF Insert
  <2>1. /\ DOMAIN uploads' = DOMAIN uploads \ {i}
        /\ DOMAIN files' = DOMAIN files \cup {i}
        /\ \A j \in DOMAIN files : files'[j] = files[j]
    OBVIOUS
  <2>. QED
    BY <2>1
<1>4. CASE Delete
  <2>. PICK i \in DOMAIN files :
          /\ files' = [j \in DOMAIN files \ {i} |-> files[j]]
          /\ kept' = kept \ {i}
          /\ UNCHANGED <<clock, drawn, uploads, walk>>
    BY <1>4 DEF Delete
  <2>1. /\ DOMAIN files' = DOMAIN files \ {i}
        /\ \A j \in DOMAIN files' : files'[j] = files[j]
    OBVIOUS
  <2>. QED
    BY <2>1
<1>. QED
  BY <1>1, <1>2, <1>3, <1>4 DEF Table

LEMMA TableKeepsInv ==
    ASSUME PagingInv, Table
    PROVE  PagingInv'
<1>1. /\ Rows' /\ walk' = walk /\ drawn \subseteq drawn'
      /\ \A i \in drawn \ DOMAIN uploads :
             /\ i \notin DOMAIN uploads'
             /\ i \in DOMAIN files' => i \in DOMAIN files /\ files'[i] = files[i]
      /\ kept' \subseteq kept
      /\ \A i \in kept' : i \in drawn \ DOMAIN uploads /\ i \in DOMAIN files'
  BY TableLemma
<1>2. Fields'
  BY <1>1 DEF PagingInv, Fields
<1>3. \A i \in drawn \ DOMAIN uploads : i \in DOMAIN files' => At(i)' = At(i)
  BY <1>1 DEF At
<1>. DEFINE seen == walk.seen
<1>4. /\ seen \in Seq(Ids) /\ seen' = seen
      /\ \A n \in DOMAIN seen : seen[n] \in drawn \ DOMAIN uploads
  BY <1>1 DEF PagingInv, Shown
<1>. HIDE DEF seen
<1>5. Shown(seen)'
  <2>1. Shown(seen)
    BY DEF PagingInv, seen
  <2>. QED
    BY <2>1, <1>1, <1>3, <1>4 DEF Shown
<1>6. \A p : Parts(p, seen) => Parts(p, seen)'
  BY <1>1, <1>3, <1>4 DEF Parts
<1>7. \A i \in drawn \ DOMAIN uploads :
          i \in DOMAIN files' /\ Parts(At(i), seen) => Parts(At(i), seen)'
  BY <1>1, <1>3, <1>4 DEF Parts
<1>8. AtPosition => AtPosition'
  BY <1>1, <1>6 DEF AtPosition, seen
<1>9. AtCursor => AtCursor'
  <2>. SUFFICES ASSUME AtCursor PROVE AtCursor'
    OBVIOUS
  <2>1. PICK i : i = walk.cursor
    OBVIOUS
  <2>2. CASE seen = <<>>
    <3>1. kept' = {}
      BY <2>2, <1>1 DEF AtCursor, seen
    <3>. QED
      BY <3>1, <2>2, <1>1, <1>4 DEF AtCursor, Parts, seen
  <2>3. CASE seen # <<>>
    <3>1. i \in ToSet(seen)
      BY <2>1, <2>3 DEF AtCursor, seen
    <3>2. i \in drawn \ DOMAIN uploads
      BY <3>1, <1>4 DEF ToSet
    <3>3. i \in DOMAIN files' => Parts(At(i), seen)
      BY <2>1, <3>2, <1>1 DEF AtCursor, seen
    <3>4. i \in DOMAIN files' => Parts(At(i), seen)'
      BY <3>3, <3>2, <1>7
    <3>5. walk.cursor' \in DOMAIN files' => Parts(At(walk.cursor), walk.seen)'
      BY <2>1, <3>4, <1>1 DEF Parts, At, seen
    <3>. QED
      BY <3>1, <3>5, <2>1, <2>3, <1>1 DEF AtCursor, seen
  <2>. QED
    BY <2>2, <2>3
<1>10. Progress'
  <2>1. walk.pc = "refused" /\ seen # <<>> => walk.cursor \in ToSet(seen) \ DOMAIN files'
    <3>. SUFFICES ASSUME walk.pc = "refused", seen # <<>>
                  PROVE  walk.cursor \in ToSet(seen) \ DOMAIN files'
      OBVIOUS
    <3>1. walk.cursor \in ToSet(seen) \ DOMAIN files
      BY DEF PagingInv, Progress, seen
    <3>2. walk.cursor \in drawn \ DOMAIN uploads
      BY <3>1, <1>4 DEF ToSet
    <3>. QED
      BY <3>1, <3>2, <1>1
  <2>2. walk.pc = "end" => NothingIsMissed'
    BY <1>1 DEF PagingInv, Progress, NothingIsMissed
  <2>. QED
    BY <2>1, <2>2, <1>1, <1>8, <1>9 DEF PagingInv, Progress, seen
<1>. QED
  BY <1>1, <1>2, <1>5, <1>10 DEF PagingInv, seen

----------------------------------------------------------------------------
(* What a page adds to what was seen.                                       *)

\* A page is a sequence of the reader's files behind the position it was asked
\* for, each once, and leaves out only files that are older than all of it.
LEMMA PageLemma ==
    ASSUME Rows, NEW after, NEW n \in Nat, NEW page \in ListFiles(Reader, n, after)
    PROVE  /\ page \in Seq(Ids) /\ Len(page) \in 0..n
           /\ \A j \in DOMAIN page :
                  /\ page[j] \in Owned(Reader)
                  /\ after = None \/ Older(At(page[j]), after)
           /\ \A j, k \in DOMAIN page : j < k => Older(At(page[k]), At(page[j]))
           /\ IsInjective(page)
           /\ \A i \in Owned(Reader) \ ToSet(page) : after = None \/ Older(At(i), after) =>
                  Len(page) = n /\ \A j \in DOMAIN page : Older(At(i), At(page[j]))
<1>. DEFINE S == Matches(Reader, after)
<1>1. page \in SeqOf(S, n) /\ NewestOf(page, S, n)
  BY DEF ListFiles
<1>2. PICK m \in 0..n : page \in [1..m -> S]
  BY <1>1 DEF SeqOf
<1>3. /\ \A i \in S : i \in Owned(Reader) /\ (after = None \/ Older(At(i), after))
      /\ \A i \in Owned(Reader) : after = None \/ Older(At(i), after) => i \in S
      /\ S \subseteq Ids
  BY DEF Matches, Owned, Behind, Rows
<1>4. page \in Seq(Ids) /\ Len(page) = m /\ DOMAIN page = 1..m
  BY <1>2, <1>3
<1>5. \A j, k \in DOMAIN page : j < k => Older(At(page[k]), At(page[j]))
  BY <1>1 DEF NewestOf
<1>6. IsInjective(page)
  <2>. SUFFICES ASSUME NEW j \in 1..m, NEW k \in 1..m, j < k PROVE page[j] # page[k]
    BY <1>4 DEF IsInjective
  <2>1. page[j] \in DOMAIN files /\ page[k] \in DOMAIN files
    BY <1>2, <1>3 DEF Owned
  <2>2. Older(At(page[k]), At(page[j]))
    BY <1>4, <1>5
  <2>3. At(page[j]) \in Position
    BY <2>1, AtLemma
  <2>4. ~Older(At(page[j]), At(page[j]))
    BY <2>3, OlderLemma
  <2>. QED
    BY <2>2, <2>4
<1>7. \A i \in S \ ToSet(page) : Len(page) = n /\ \A j \in DOMAIN page : Older(At(i), At(page[j]))
  BY <1>1 DEF NewestOf
<1>. HIDE DEF S
<1>8. \A j \in DOMAIN page : page[j] \in S
  BY <1>2
<1>. QED
  BY <1>3, <1>4, <1>5, <1>6, <1>7, <1>8

\* What was seen and the first files of the page behind it: the part of the page
\* that is shown.
LEMMA ConcatLemma ==
    ASSUME NEW seen \in Seq(Ids), NEW page \in Seq(Ids), NEW k \in 0..Len(page)
    PROVE  LET s == seen \o SubSeq(page, 1, k) IN
           /\ s \in Seq(Ids) /\ Len(s) = Len(seen) + k
           /\ \A j \in 1..Len(seen) : s[j] = seen[j]
           /\ \A j \in 1..k : s[Len(seen) + j] = page[j]
           /\ \A n \in 1..Len(s) : n \in 1..Len(seen)
                                   \/ \E j \in 1..k : n = Len(seen) + j
           /\ ToSet(s) = ToSet(seen) \cup {page[j] : j \in 1..k}
<1>. DEFINE t == SubSeq(page, 1, k)  s == seen \o t
<1>1. /\ Len(seen) \in Nat /\ DOMAIN seen = 1..Len(seen)
      /\ Len(page) \in Nat /\ \A j \in 1..Len(page) : page[j] \in Ids
  BY LenProperties, ElementOfSeq
<1>2. t \in Seq(Ids) /\ Len(t) = k /\ \A j \in 1..k : t[j] = page[j]
  <2>1. \A j \in 1..k : page[j] \in Ids
    BY <1>1
  <2>2. /\ SubSeq(page, 1, k) \in Seq(Ids)
        /\ Len(SubSeq(page, 1, k)) = IF 1 <= k THEN k - 1 + 1 ELSE 0
        /\ \A i \in 1 .. k - 1 + 1 : SubSeq(page, 1, k)[i] = page[1 + i - 1]
    BY <2>1, SubSeqProperties
  <2>. QED
    BY <1>1, <2>2
<1>. HIDE DEF t
<1>3. /\ s \in Seq(Ids) /\ Len(s) = Len(seen) + Len(t)
      /\ \A i \in 1 .. Len(seen) + Len(t) :
             s[i] = IF i <= Len(seen) THEN seen[i] ELSE t[i - Len(seen)]
  BY <1>2, ConcatProperties
<1>. HIDE DEF s
<1>4. \A j \in 1..Len(seen) : s[j] = seen[j]
  BY <1>1, <1>2, <1>3
<1>5. \A j \in 1..k : s[Len(seen) + j] = page[j]
  <2>. SUFFICES ASSUME NEW j \in 1..k PROVE s[Len(seen) + j] = page[j]
    OBVIOUS
  <2>1. PICK m \in 1..(Len(seen) + Len(t)) : m = Len(seen) + j
    BY <1>1, <1>2
  <2>2. ~(m <= Len(seen)) /\ m - Len(seen) = j
    BY <1>1, <2>1
  <2>3. s[m] = IF m <= Len(seen) THEN seen[m] ELSE t[m - Len(seen)]
    BY <1>3
  <2>4. s[m] = t[j]
    BY <2>2, <2>3
  <2>. QED
    BY <1>2, <2>1, <2>4
<1>6. \A n \in 1..Len(s) : n \in 1..Len(seen) \/ \E j \in 1..k : n = Len(seen) + j
  <2>. SUFFICES ASSUME NEW n \in 1..Len(s), n \notin 1..Len(seen)
                PROVE  \E j \in 1..k : n = Len(seen) + j
    OBVIOUS
  <2>1. n - Len(seen) \in 1..k /\ n = Len(seen) + (n - Len(seen))
    BY <1>1, <1>2, <1>3
  <2>. QED
    BY <2>1
<1>7. ToSet(s) = ToSet(seen) \cup {page[j] : j \in 1..k}
  <2>1. DOMAIN s = 1..Len(s) /\ Len(s) = Len(seen) + k
    BY <1>2, <1>3, LenProperties
  <2>2. \A j \in 1..Len(seen) : j \in DOMAIN s
    BY <1>1, <2>1
  <2>3. \A j \in 1..k : Len(seen) + j \in DOMAIN s
    BY <1>1, <2>1
  <2>4. ASSUME NEW n \in DOMAIN s PROVE s[n] \in ToSet(seen) \cup {page[j] : j \in 1..k}
    <3>1. CASE n \in 1..Len(seen)
      BY <3>1, <1>1, <1>4 DEF ToSet
    <3>2. ASSUME NEW j \in 1..k, n = Len(seen) + j PROVE s[n] = page[j]
      BY <3>2, <1>5
    <3>. QED
      BY <3>1, <3>2, <1>6, <2>1
  <2>5. ToSet(seen) \subseteq ToSet(s)
    BY <1>1, <1>4, <2>2 DEF ToSet
  <2>6. ASSUME NEW j \in 1..k PROVE page[j] \in ToSet(s)
    BY <1>5, <2>3 DEF ToSet
  <2>7. ToSet(s) \subseteq ToSet(seen) \cup {page[j] : j \in 1..k}
    BY <2>4 DEF ToSet
  <2>. QED
    BY <2>5, <2>6, <2>7
<1>. QED
  BY <1>2, <1>3, <1>4, <1>5, <1>6, <1>7 DEF s, t

\* The page behind the walk's position shows nothing that was seen, and goes on in
\* its order; the last file shown parts what was seen from what is to come, and
\* after the last page nothing is.
LEMMA ShownLemma ==
    ASSUME PagingInv, AtPosition, NEW n \in Nat, NEW page \in ListFiles(Reader, n, walk.after),
           NEW k \in 0..Len(page)
    PROVE  LET s == Noted(walk.seen, SubSeq(page, 1, k)) IN
           /\ Shown(s)
           /\ k > 0 => /\ page[k] \in DOMAIN files \cap ToSet(s)
                       /\ Parts(At(page[k]), s)
                       /\ s # <<>>
           /\ Len(page) < n /\ k = Len(page) => kept \subseteq ToSet(s)
<1>. DEFINE seen == walk.seen
            after == walk.after
            s == seen \o SubSeq(page, 1, k)
<1>1. Rows /\ Shown(seen) /\ after \in Position \cup {None}
  BY DEF PagingInv, Fields
<1>2. /\ page \in Seq(Ids) /\ Len(page) \in 0..n
      /\ \A j \in DOMAIN page :
             /\ page[j] \in Owned(Reader)
             /\ after = None \/ Older(At(page[j]), after)
      /\ \A i, j \in DOMAIN page : i < j => Older(At(page[j]), At(page[i]))
      /\ IsInjective(page)
      /\ \A i \in Owned(Reader) \ ToSet(page) : after = None \/ Older(At(i), after) =>
             Len(page) = n /\ \A j \in DOMAIN page : Older(At(i), At(page[j]))
  BY <1>1, PageLemma
<1>3. (after = None /\ seen = <<>>) \/ (after \in Position /\ Parts(after, seen))
  BY <1>1 DEF AtPosition
<1>. HIDE DEF seen, after
<1>4. DOMAIN page = 1..Len(page) /\ 1..k \subseteq DOMAIN page /\ k \in Nat
  BY <1>2, LenProperties
<1>5. seen \in Seq(Ids) /\ DOMAIN seen = 1..Len(seen) /\ Len(seen) \in Nat
  BY <1>1, LenProperties DEF Shown
<1>6. /\ s \in Seq(Ids) /\ Len(s) = Len(seen) + k
      /\ \A j \in 1..Len(seen) : s[j] = seen[j]
      /\ \A j \in 1..k : s[Len(seen) + j] = page[j]
      /\ \A m \in 1..Len(s) : m \in 1..Len(seen) \/ \E j \in 1..k : m = Len(seen) + j
      /\ ToSet(s) = ToSet(seen) \cup {page[j] : j \in 1..k}
  BY <1>2, <1>5, ConcatLemma
<1>7. Noted(walk.seen, SubSeq(page, 1, k)) = s
  <2>1. ~(Len(seen) > Cardinality(Ids))
    BY <1>1, BoundLemma, FS_CardinalityType, IdAssumption
  <2>. QED
    BY <2>1 DEF Noted, seen
<1>. HIDE DEF s
<1>8. DOMAIN s = 1..Len(s)
  BY <1>6, LenProperties
<1>9. \A j \in DOMAIN page : /\ page[j] \in DOMAIN files /\ page[j] \in drawn \ DOMAIN uploads
                             /\ files[page[j]].owner = Reader
                             /\ At(page[j]) \in Position
  BY <1>1, <1>2, AtLemma DEF Rows, Owned
<1>10. \A m \in DOMAIN seen, j \in DOMAIN page :
           /\ seen[m] # page[j]
           /\ seen[m] \in DOMAIN files => Older(At(page[j]), At(seen[m]))
  <2>. SUFFICES ASSUME NEW m \in DOMAIN seen, NEW j \in DOMAIN page, seen[m] \in DOMAIN files
                PROVE  seen[m] # page[j] /\ Older(At(page[j]), At(seen[m]))
    BY <1>9
  <2>1. after \in Position /\ Parts(after, seen)
    BY <1>3, <1>5
  <2>2. At(seen[m]) \in Position /\ At(page[j]) \in Position
    BY <1>1, <1>9, AtLemma
  <2>3. ~Older(At(seen[m]), after)
    BY <2>1 DEF Parts
  <2>4. Older(At(page[j]), after)
    BY <1>2, <2>1, NoneAssumption
  <2>5. Older(At(page[j]), At(seen[m]))
    BY <2>1, <2>2, <2>3, <2>4, OlderLemma
  <2>. QED
    BY <2>3, <2>4, <2>5
<1>11. ASSUME NEW i \in DOMAIN s, NEW j \in DOMAIN s, i < j
       PROVE  /\ s[i] # s[j]
              /\ {s[i], s[j]} \subseteq DOMAIN files => Older(At(s[j]), At(s[i]))
  <2>1. CASE j \in 1..Len(seen)
    <3>1. i \in 1..Len(seen) /\ s[i] = seen[i] /\ s[j] = seen[j]
      BY <1>5, <1>6, <1>8, <1>11, <2>1
    <3>2. seen[i] # seen[j]
      BY <1>1, <1>5, <1>11, <2>1, <3>1 DEF Shown, IsInjective
    <3>. QED
      BY <1>1, <1>5, <1>11, <2>1, <3>1, <3>2 DEF Shown
  <2>2. ASSUME NEW b \in 1..k, j = Len(seen) + b PROVE
              /\ s[i] # s[j]
              /\ {s[i], s[j]} \subseteq DOMAIN files => Older(At(s[j]), At(s[i]))
    <3>1. s[j] = page[b] /\ b \in DOMAIN page
      BY <1>4, <1>6, <2>2
    <3>2. CASE i \in 1..Len(seen)
      BY <1>5, <1>6, <1>10, <3>1, <3>2
    <3>3. ASSUME NEW a \in 1..k, i = Len(seen) + a PROVE
              /\ s[i] # s[j]
              /\ {s[i], s[j]} \subseteq DOMAIN files => Older(At(s[j]), At(s[i]))
      <4>1. s[i] = page[a] /\ a \in DOMAIN page /\ a < b
        BY <1>4, <1>5, <1>6, <1>11, <2>2, <3>3
      <4>2. page[a] # page[b]
        BY <1>2, <3>1, <4>1 DEF IsInjective
      <4>. QED
        BY <1>2, <3>1, <4>1, <4>2
    <3>. QED
      BY <1>6, <1>8, <3>2, <3>3
  <2>. QED
    BY <1>6, <1>8, <2>1, <2>2
<1>12. ASSUME NEW i \in DOMAIN s
       PROVE  /\ s[i] \in drawn \ DOMAIN uploads
              /\ s[i] \in DOMAIN files => files[s[i]].owner = Reader
  <2>1. CASE i \in 1..Len(seen)
    BY <1>1, <1>5, <1>6, <2>1 DEF Shown
  <2>2. ASSUME NEW j \in 1..k, i = Len(seen) + j
        PROVE  s[i] \in drawn \ DOMAIN uploads /\ files[s[i]].owner = Reader
    <3>1. s[i] = page[j] /\ j \in DOMAIN page
      BY <1>4, <1>6, <2>2
    <3>. QED
      BY <1>9, <3>1
  <2>. QED
    BY <1>6, <1>8, <2>1, <2>2
<1>13. Shown(s)
  <2>1. IsInjective(s)
    BY <1>6, <1>8, <1>11 DEF IsInjective
  <2>. QED
    BY <2>1, <1>6, <1>11, <1>12 DEF Shown
<1>14. \A i \in kept \ ToSet(s) : /\ i \in Owned(Reader) \ ToSet(seen)
                                  /\ after = None \/ Older(At(i), after)
  BY <1>1, <1>3, <1>6 DEF Rows, Parts
<1>15. ASSUME k > 0
       PROVE  page[k] \in DOMAIN files \cap ToSet(s) /\ Parts(At(page[k]), s) /\ s # <<>>
  <2>1. k \in 1..k /\ k \in DOMAIN page
    BY <1>4, <1>15
  <2>2. page[k] \in DOMAIN files \cap ToSet(s) /\ At(page[k]) \in Position
    BY <1>6, <1>9, <2>1
  <2>3. ASSUME NEW m \in DOMAIN s, s[m] \in DOMAIN files PROVE ~Older(At(s[m]), At(page[k]))
    <3>1. CASE m \in 1..Len(seen)
      <4>1. s[m] = seen[m] /\ m \in DOMAIN seen
        BY <1>5, <1>6, <3>1
      <4>2. Older(At(page[k]), At(s[m]))
        BY <1>10, <2>1, <2>3, <4>1
      <4>. QED
        BY <1>1, <2>2, <2>3, <4>2, AtLemma, OlderLemma
    <3>2. ASSUME NEW j \in 1..k, m = Len(seen) + j PROVE ~Older(At(s[m]), At(page[k]))
      <4>1. s[m] = page[j] /\ j \in DOMAIN page
        BY <1>4, <1>6, <3>2
      <4>2. j = k \/ Older(At(page[k]), At(page[j]))
        <5>1. j = k \/ j < k
          BY <1>4
        <5>. QED
          BY <1>2, <2>1, <4>1, <5>1
      <4>3. At(s[m]) \in Position
        BY <1>9, <4>1
      <4>. QED
        BY <2>2, <4>1, <4>2, <4>3, OlderLemma
    <3>. QED
      BY <1>6, <1>8, <3>1, <3>2
  <2>4. ASSUME NEW i \in kept \ ToSet(s) PROVE Older(At(i), At(page[k]))
    <3>1. CASE i \in ToSet(page)
      <4>1. PICK j \in DOMAIN page : i = page[j]
        BY <3>1 DEF ToSet
      <4>2. j \notin 1..k
        BY <1>6, <2>4, <4>1
      <4>3. k < j
        BY <1>4, <4>2
      <4>. QED
        BY <1>2, <2>1, <4>1, <4>3
    <3>2. CASE i \notin ToSet(page)
      BY <1>2, <1>14, <2>1, <2>4, <3>2
    <3>. QED
      BY <3>1, <3>2
  <2>5. s # <<>>
    BY <2>2 DEF ToSet
  <2>. QED
    BY <2>2, <2>3, <2>4, <2>5 DEF Parts
<1>16. ASSUME Len(page) < n, k = Len(page), NEW i \in kept PROVE i \in ToSet(s)
  <2>. SUFFICES ASSUME i \notin ToSet(s) PROVE FALSE
    OBVIOUS
  <2>1. i \in ToSet(page)
    BY <1>2, <1>14, <1>16
  <2>. QED
    BY <1>4, <1>6, <1>16, <2>1 DEF ToSet
<1>. QED
  BY <1>7, <1>13, <1>15, <1>16

----------------------------------------------------------------------------
(* The reader's steps.                                                      *)

LEMMA BeginKeepsInv ==
    ASSUME PagingInv, Begin \/ BeginBehind
    PROVE  PagingInv'
<1>1. UNCHANGED <<clock, drawn, uploads, files>> /\ kept' \subseteq Owned(Reader)
  BY DEF Begin, BeginBehind
<1>2. Rows'
  BY <1>1 DEF PagingInv, Rows, Owned
<1>3. PICK k \in {"api", "web"}, n \in Limits, q \in {"query", "cursor"}, i \in Ids \cup {None} :
         /\ walk' = [interface |-> k, pc |-> q, after |-> None, cursor |-> i,
                     size |-> n, seen |-> <<>>]
         /\ q = "cursor" => k = "api" /\ i \in Ids /\ kept' = {}
  <2>1. CASE Begin
    BY <2>1 DEF Begin, Idle
  <2>2. CASE BeginBehind
    BY <2>2 DEF BeginBehind, Idle
  <2>. QED
    BY <2>1, <2>2
<1>4. /\ walk'.interface = k /\ walk'.pc = q /\ walk'.after = None
      /\ walk'.cursor = i /\ walk'.size = n /\ walk'.seen = <<>>
  BY <1>3
<1>5. Fields'
  BY <1>3, <1>4 DEF Fields
<1>6. Shown(walk.seen)'
  BY <1>4, EmptySeq DEF Shown, IsInjective
<1>7. Progress'
  <2>1. CASE q = "query"
    BY <1>4, <2>1 DEF Progress, AtPosition
  <2>2. CASE q = "cursor"
    BY <1>3, <1>4, <2>2 DEF Progress, AtCursor, Parts
  <2>. QED
    BY <2>1, <2>2
<1>. QED
  BY <1>2, <1>5, <1>6, <1>7 DEF PagingInv

\* Following the walk to its next page moves nothing but the walk's own fields.
LEMMA FollowKeepsInv ==
    ASSUME PagingInv, FollowApi \/ FollowWeb \/ Resolve
    PROVE  PagingInv'
<1>1. UNCHANGED <<clock, drawn, uploads, files, kept>>
  BY DEF FollowApi, FollowWeb, Resolve
<1>2. Rows'
  BY <1>1 DEF PagingInv, Rows, Owned
<1>3. /\ walk' = [interface |-> walk.interface, pc |-> walk'.pc, after |-> walk'.after,
                  cursor |-> walk.cursor, size |-> walk.size, seen |-> walk.seen]
      /\ \/ walk'.pc = "cursor" /\ walk'.after = walk.after /\ FollowApi
         \/ walk'.pc = "query" /\ walk'.after = walk.after /\ FollowWeb
         \/ walk'.pc = "query" /\ walk'.after = At(walk.cursor) /\ Resolve
            /\ walk.cursor \in Owned(Reader)
         \/ walk'.pc = "refused" /\ walk'.after = walk.after /\ Resolve
            /\ walk.cursor \notin Owned(Reader)
  BY DEF PagingInv, Fields, FollowApi, FollowWeb, Resolve
<1>4. /\ walk'.interface = walk.interface /\ walk'.cursor = walk.cursor
      /\ walk'.size = walk.size /\ walk'.seen = walk.seen
  BY <1>3
<1>5. walk'.after \in Position \cup {None}
  BY <1>3, AtLemma DEF PagingInv, Fields, Owned
<1>6. Fields'
  BY <1>3, <1>4, <1>5 DEF PagingInv, Fields
<1>7. Shown(walk.seen)'
  BY <1>1, <1>4 DEF PagingInv, Shown, At
<1>8. walk.size \in Limits /\ walk.interface \in {"api", "web"}
  BY DEF PagingInv, Progress, FollowApi, FollowWeb, Resolve
<1>9. CASE FollowApi
  <2>1. AtCursor /\ walk'.pc = "cursor"
    BY <1>9 DEF PagingInv, Progress, FollowApi, Fields
  <2>2. AtCursor'
    BY <1>1, <1>4, <2>1 DEF AtCursor, Parts, At
  <2>3. Progress'
    BY <1>4, <1>8, <2>1, <2>2 DEF Progress
  <2>. QED
    BY <1>2, <1>6, <1>7, <2>3 DEF PagingInv
<1>10. CASE FollowWeb
  <2>1. AtPosition /\ walk'.pc = "query" /\ walk'.after = walk.after /\ walk.pc = "page"
    BY <1>10 DEF PagingInv, Progress, FollowWeb, Fields
  <2>2. AtPosition'
    BY <1>1, <1>4, <2>1 DEF AtPosition, Parts, At
  <2>3. Progress'
    BY <1>4, <1>8, <2>1, <2>2 DEF Progress
  <2>. QED
    BY <1>2, <1>6, <1>7, <2>3 DEF PagingInv
<1>11. CASE Resolve
  <2>1. AtCursor
    BY <1>11 DEF PagingInv, Progress, Resolve
  <2>2. CASE walk.cursor \in Owned(Reader)
    <3>1. walk'.pc = "query" /\ walk'.after = At(walk.cursor)
      BY <1>11, <2>2 DEF Resolve, PagingInv, Fields
    <3>2. Parts(At(walk.cursor), walk.seen) /\ At(walk.cursor) # None
      BY <2>1, <2>2, AtLemma, NoneAssumption DEF AtCursor, Owned, PagingInv
    <3>3. PICK p : p = At(walk.cursor)
      OBVIOUS
    <3>4. Parts(p, walk.seen)'
      BY <1>1, <1>4, <3>2, <3>3 DEF Parts, At
    <3>5. AtPosition'
      BY <3>1, <3>2, <3>3, <3>4 DEF AtPosition, Parts
    <3>6. Progress'
      BY <1>4, <1>8, <3>1, <3>5 DEF Progress
    <3>. QED
      BY <1>2, <1>6, <1>7, <3>6 DEF PagingInv
  <2>3. CASE walk.cursor \notin Owned(Reader)
    <3>1. walk'.pc = "refused"
      BY <1>11, <2>3 DEF Resolve, PagingInv, Fields
    <3>2. walk.seen # <<>> => walk.cursor \in ToSet(walk.seen) \ DOMAIN files
      <4>. SUFFICES ASSUME walk.seen # <<>>
                    PROVE  walk.cursor \in ToSet(walk.seen) \ DOMAIN files
        OBVIOUS
      <4>1. walk.cursor \in ToSet(walk.seen)
        BY <2>1 DEF AtCursor
      <4>2. walk.cursor \in DOMAIN files => files[walk.cursor].owner = Reader
        BY <4>1 DEF PagingInv, Shown, ToSet
      <4>. QED
        BY <2>3, <4>1, <4>2 DEF Owned
    <3>3. Progress'
      BY <1>1, <1>4, <1>8, <3>1, <3>2 DEF Progress
    <3>. QED
      BY <1>2, <1>6, <1>7, <3>3 DEF PagingInv
  <2>. QED
    BY <2>2, <2>3
<1>. QED
  BY <1>9, <1>10, <1>11

LEMMA QueryKeepsInv ==
    ASSUME PagingInv, QueryApi \/ QueryWeb
    PROVE  PagingInv'
<1>1. UNCHANGED <<clock, drawn, uploads, files, kept>> /\ walk.pc = "query"
  BY DEF QueryApi, QueryWeb
<1>2. Rows'
  BY <1>1 DEF PagingInv, Rows, Owned
<1>3. AtPosition /\ walk.size \in Limits
  BY <1>1 DEF PagingInv, Progress
<1>4. walk.size \in Nat /\ walk.size > 0
  <2>1. walk.size \in Nat \ {0}
    BY <1>3, LimitAssumption
  <2>. QED
    BY <2>1
<1>5. \A s : Shown(s) => Shown(s)'
  BY <1>1 DEF Shown, At
<1>6. CASE QueryApi
  <2>1. walk.interface = "api"
    BY <1>6 DEF QueryApi
  <2>2. PICK page \in ListFiles(Reader, walk.size, walk.after) :
           LET full == Len(page) = walk.size
           IN  walk' = [walk EXCEPT !.seen = Noted(@, page),
                                    !.cursor = IF full THEN Last(page) ELSE None,
                                    !.pc = IF full THEN "page" ELSE "end"]
    BY <1>6 DEF QueryApi
  <2>3. page \in Seq(Ids) /\ Len(page) \in 0..walk.size
    BY <1>4, <2>2, PageLemma DEF PagingInv
  <2>. DEFINE k == Len(page)
              s == Noted(walk.seen, SubSeq(page, 1, k))
  <2>4. SubSeq(page, 1, k) = page
    BY <2>3, SubSeqFull
  <2>5. /\ Shown(s)
        /\ k > 0 => /\ page[k] \in DOMAIN files \cap ToSet(s)
                    /\ Parts(At(page[k]), s)
                    /\ s # <<>>
        /\ Len(page) < walk.size /\ k = Len(page) => kept \subseteq ToSet(s)
    BY <1>3, <1>4, <2>2, <2>3, ShownLemma
  <2>6. /\ walk'.interface = "api" /\ walk'.size = walk.size /\ walk'.after = walk.after
        /\ walk'.seen = s
        /\ walk'.cursor = IF k = walk.size THEN page[k] ELSE None
        /\ walk'.pc = IF k = walk.size THEN "page" ELSE "end"
        /\ walk' = [interface |-> walk'.interface, pc |-> walk'.pc, after |-> walk'.after,
                    cursor |-> walk'.cursor, size |-> walk'.size, seen |-> walk'.seen]
    BY <2>1, <2>2, <2>4 DEF PagingInv, Fields, Last
  <2>. HIDE DEF s
  <2>7. PICK t : t = s
    OBVIOUS
  <2>8. Shown(walk.seen)'
    BY <1>5, <2>5, <2>6, <2>7 DEF Shown
  <2>9. CASE k = walk.size
    <3>1. PICK i : i = page[k]
      OBVIOUS
    <3>2. i \in Ids /\ i \in ToSet(t) /\ t # <<>> /\ Parts(At(i), t)
      BY <1>4, <2>3, <2>5, <2>7, <2>9, <3>1, ElementOfSeq
    <3>3. walk'.pc = "page" /\ walk'.cursor = i /\ walk'.seen = t
      BY <2>6, <2>7, <2>9, <3>1
    <3>4. AtCursor'
      BY <1>1, <2>6, <3>2, <3>3 DEF AtCursor, Parts, At
    <3>5. Progress'
      BY <1>3, <2>6, <3>3, <3>4 DEF Progress
    <3>6. Fields'
      BY <2>6, <3>2, <3>3 DEF PagingInv, Fields
    <3>. QED
      BY <1>2, <2>8, <3>5, <3>6 DEF PagingInv
  <2>10. CASE k # walk.size
    <3>1. walk'.pc = "end" /\ walk'.cursor = None
      BY <2>6, <2>10
    <3>2. kept \subseteq ToSet(s)
      BY <1>4, <2>3, <2>5, <2>10
    <3>3. Progress'
      BY <1>1, <1>3, <2>6, <3>1, <3>2 DEF Progress, NothingIsMissed
    <3>4. Fields'
      BY <2>6, <3>1 DEF PagingInv, Fields
    <3>. QED
      BY <1>2, <2>8, <3>3, <3>4 DEF PagingInv
  <2>. QED
    BY <2>9, <2>10
<1>7. CASE QueryWeb
  <2>1. walk.interface = "web"
    BY <1>7 DEF QueryWeb
  <2>2. PICK page \in ListFiles(Reader, walk.size + 1, walk.after) :
           LET older == Len(page) > walk.size
           IN  walk' = [walk EXCEPT
                           !.seen = Noted(@, IF older THEN Front(page) ELSE page),
                           !.after = IF older THEN At(page[walk.size]) ELSE None,
                           !.pc = IF older THEN "page" ELSE "end"]
    BY <1>7 DEF QueryWeb
  <2>3. page \in Seq(Ids) /\ Len(page) \in 0..(walk.size + 1)
    BY <1>4, <2>2, PageLemma DEF PagingInv
  <2>. DEFINE older == Len(page) > walk.size
              k == IF older THEN walk.size ELSE Len(page)
              s == Noted(walk.seen, SubSeq(page, 1, k))
  <2>4. k \in 0..Len(page) /\ (IF older THEN Front(page) ELSE page) = SubSeq(page, 1, k)
    BY <1>4, <2>3, SubSeqFull DEF Front
  <2>5. /\ Shown(s)
        /\ k > 0 => /\ page[k] \in DOMAIN files \cap ToSet(s)
                    /\ Parts(At(page[k]), s)
                    /\ s # <<>>
        /\ Len(page) < walk.size + 1 /\ k = Len(page) => kept \subseteq ToSet(s)
    <3>. PICK j \in 0..Len(page) : j = k
      BY <2>4
    <3>. PICK n \in Nat : n = walk.size + 1
      BY <1>4
    <3>1. page \in ListFiles(Reader, n, walk.after)
      BY <2>2
    <3>. DEFINE u == Noted(walk.seen, SubSeq(page, 1, j))
    <3>2. /\ Shown(u)
          /\ j > 0 => /\ page[j] \in DOMAIN files \cap ToSet(u)
                      /\ Parts(At(page[j]), u)
                      /\ u # <<>>
          /\ Len(page) < n /\ j = Len(page) => kept \subseteq ToSet(u)
      BY <1>3, <3>1, ShownLemma
    <3>. QED
      BY <3>2, Zenon
  <2>6. /\ walk'.interface = "web" /\ walk'.size = walk.size /\ walk'.cursor = walk.cursor
        /\ walk'.seen = s
        /\ walk'.after = IF older THEN At(page[walk.size]) ELSE None
        /\ walk'.pc = IF older THEN "page" ELSE "end"
        /\ walk' = [interface |-> walk'.interface, pc |-> walk'.pc, after |-> walk'.after,
                    cursor |-> walk'.cursor, size |-> walk'.size, seen |-> walk'.seen]
    BY <2>1, <2>2, <2>4 DEF PagingInv, Fields
  <2>. HIDE DEF s
  <2>7. PICK t : t = s
    OBVIOUS
  <2>8. Shown(walk.seen)'
    BY <1>5, <2>5, <2>6, <2>7 DEF Shown
  <2>9. CASE older
    <3>1. PICK p : p = At(page[walk.size])
      OBVIOUS
    <3>2. p \in Position /\ Parts(p, t)
      BY <1>4, <2>5, <2>7, <2>9, <3>1, AtLemma DEF PagingInv
    <3>3. walk'.pc = "page" /\ walk'.after = p /\ walk'.seen = t
      BY <2>6, <2>7, <2>9, <3>1
    <3>4. AtPosition'
      BY <1>1, <3>2, <3>3, NoneAssumption DEF AtPosition, Parts, At
    <3>5. Progress'
      BY <1>3, <2>6, <3>3, <3>4 DEF Progress
    <3>6. Fields'
      BY <2>6, <3>2, <3>3 DEF PagingInv, Fields
    <3>. QED
      BY <1>2, <2>8, <3>5, <3>6 DEF PagingInv
  <2>10. CASE ~older
    <3>1. walk'.pc = "end" /\ walk'.after = None
      BY <2>6, <2>10
    <3>2. kept \subseteq ToSet(s)
      BY <1>4, <2>3, <2>5, <2>10
    <3>3. Progress'
      BY <1>1, <1>3, <2>6, <3>1, <3>2 DEF Progress, NothingIsMissed
    <3>4. Fields'
      BY <2>6, <3>1 DEF PagingInv, Fields
    <3>. QED
      BY <1>2, <2>8, <3>3, <3>4 DEF PagingInv
  <2>. QED
    BY <2>9, <2>10
<1>. QED
  BY <1>6, <1>7

----------------------------------------------------------------------------
(* The theorems.                                                            *)

\* A read that fails changes nothing but where the walk stands.
LEMMA FailureKeepsInv ==
    ASSUME PagingInv, ReadFails
    PROVE  PagingInv'
<1>1. UNCHANGED <<clock, drawn, uploads, files, kept>>
  BY DEF ReadFails
<1>2. walk' = [interface |-> walk.interface, pc |-> "failed", after |-> walk.after,
               cursor |-> walk.cursor, size |-> walk.size, seen |-> walk.seen]
  BY DEF PagingInv, Fields, ReadFails
<1>3. walk.size \in Limits /\ walk.interface \in {"api", "web"}
  BY DEF PagingInv, Progress, ReadFails
<1>4. Rows' /\ Shown(walk.seen)'
  BY <1>1, <1>2 DEF PagingInv, Rows, Owned, Shown, At
<1>5. Fields'
  BY <1>2 DEF PagingInv, Fields
<1>6. Progress'
  BY <1>2, <1>3 DEF Progress
<1>. QED
  BY <1>4, <1>5, <1>6 DEF PagingInv

LEMMA PagingInvHolds == Spec => []PagingInv
<1>1. PagingInv /\ [Next]_vars => PagingInv'
  <2>. SUFFICES ASSUME PagingInv, [Next]_vars PROVE PagingInv'
    OBVIOUS
  <2>1. CASE Table
    BY <2>1, TableKeepsInv
  <2>2. CASE Begin \/ BeginBehind
    BY <2>2, BeginKeepsInv
  <2>3. CASE FollowApi \/ FollowWeb \/ Resolve
    BY <2>3, FollowKeepsInv
  <2>4. CASE QueryApi \/ QueryWeb
    BY <2>4, QueryKeepsInv
  <2>5. CASE ReadFails
    BY <2>5, FailureKeepsInv
  <2>6. CASE UNCHANGED vars
    BY <2>6 DEF vars, PagingInv, Rows, Fields, Shown, Progress, AtPosition, AtCursor, Parts,
       At, Owned, NothingIsMissed
  <2>. QED
    BY <2>1, <2>2, <2>3, <2>4, <2>5, <2>6 DEF Next, Paging
<1>. QED
  BY <1>1, PagingInit, PTL DEF Spec

\* The walk, the table and the uploads under way stay in their types; no walk ever
\* notes more files than there are ids (db.ListFiles, its two callers).
THEOREM ListingTypesCorrect == Spec => []TypeOK
BY PagingInvHolds, TypeLemma, PTL

\* A walk that comes to its end has shown every file that was there all along,
\* whatever was uploaded or deleted between its pages (service.go ListFiles,
\* web.go FilesPage).
THEOREM NoFileIsMissed == Spec => []NothingIsMissed
<1>1. PagingInv => NothingIsMissed
  BY DEF PagingInv, Progress, NothingIsMissed
<1>. QED
  BY <1>1, PagingInvHolds, PTL

\* No walk shows a file twice (the strict comparison of db.ListFiles).
THEOREM NoFileIsRepeated == Spec => []NothingIsRepeated
<1>1. PagingInv => NothingIsRepeated
  BY DEF PagingInv, Shown, NothingIsRepeated
<1>. QED
  BY <1>1, PagingInvHolds, PTL

\* The files of all pages of a walk are in one order (db.ListFiles, ORDER BY).
THEOREM PagesAreInOrder == Spec => []NewestFirst
<1>1. PagingInv => NewestFirst
  BY DEF PagingInv, Shown, NewestFirst
<1>. QED
  BY <1>1, PagingInvHolds, PTL

\* A page shows the reader's own files only, and a cursor from a page is refused as
\* invalid only when its file is gone (service.go ListFiles).
THEOREM PagesShowOwnFiles == Spec => []OnlyOwnFiles
<1>1. PagingInv => OnlyOwnFiles
  BY DEF PagingInv, Shown, Progress, OnlyOwnFiles
<1>. QED
  BY <1>1, PagingInvHolds, PTL
----------------------------------------------------------------------------
(* Walks run out: the measure behind WalksEnd.                              *)

\* The steps a walk can still take: three for every file it has not shown, and
\* those up to its next page.
StepsLeft ==
    3 * (Cardinality(Ids) - Len(walk.seen)) +
        (CASE walk.pc = "page"   -> 3
           [] walk.pc = "cursor" -> 2
           [] walk.pc = "query"  -> 1
           [] OTHER -> 0)

\* Every step the reader takes, and a read that fails, leaves the walk with fewer
\* steps, and only a new walk makes them more: a page that leads on to another has
\* shown a file (db.go ListFiles, its two callers), so uploads and deletions cannot
\* keep a walk going.
WalksRunOut ==
    [][/\ Paging \/ ReadFails => StepsLeft' \in Nat /\ StepsLeft' < StepsLeft
       /\ Table => StepsLeft' = StepsLeft]_vars

RoomIsLeft == Len(walk.seen) \in Nat /\ Cardinality(Ids) - Len(walk.seen) \in Nat

LEMMA RoomLemma == PagingInv => RoomIsLeft
<1>. SUFFICES ASSUME PagingInv PROVE RoomIsLeft
  OBVIOUS
<1>1. Len(walk.seen) \in 0..Cardinality(Ids) /\ Cardinality(Ids) \in Nat
  BY BoundLemma, FS_CardinalityType, IdAssumption DEF PagingInv
<1>. QED
  BY <1>1 DEF RoomIsLeft

\* A page notes the files it shows.
LEMMA NotedGrows ==
    ASSUME PagingInv, NEW page \in Seq(Ids), NEW k \in 0..Len(page)
    PROVE  Len(Noted(walk.seen, SubSeq(page, 1, k))) = Len(walk.seen) + k
<1>1. ~(Len(walk.seen) > Cardinality(Ids)) /\ walk.seen \in Seq(Ids)
  <2>1. Len(walk.seen) \in 0..Cardinality(Ids) /\ Cardinality(Ids) \in Nat
    BY BoundLemma, FS_CardinalityType, IdAssumption DEF PagingInv
  <2>. QED
    BY <2>1 DEF PagingInv, Shown
<1>2. SubSeq(page, 1, k) \in Seq(Ids) /\ Len(SubSeq(page, 1, k)) = k
  BY SubSeqProperties, LenProperties
<1>3. Len(walk.seen \o SubSeq(page, 1, k)) = Len(walk.seen) + Len(SubSeq(page, 1, k))
  BY <1>1, <1>2, ConcatProperties
<1>4. Noted(walk.seen, SubSeq(page, 1, k)) = walk.seen \o SubSeq(page, 1, k)
  BY <1>1 DEF Noted
<1>. QED
  BY <1>2, <1>3, <1>4

\* A query shows at least one file or is the last.
LEMMA QueryGetsOn ==
    ASSUME PagingInv, QueryApi \/ QueryWeb
    PROVE  /\ walk.pc = "query"
           /\ \/ walk'.pc = "page" /\ Len(walk'.seen) > Len(walk.seen)
              \/ walk'.pc = "end" /\ Len(walk'.seen) >= Len(walk.seen)
<1>1. walk.pc = "query"
  BY DEF QueryApi, QueryWeb
<1>2. walk.size \in Nat /\ walk.size > 0
  <2>1. walk.size \in Nat \ {0}
    BY <1>1, LimitAssumption DEF PagingInv, Progress
  <2>. QED
    BY <2>1
<1>3. Len(walk.seen) \in Nat
  BY RoomLemma DEF RoomIsLeft
<1>4. CASE QueryApi
  <2>1. PICK page \in ListFiles(Reader, walk.size, walk.after) :
           LET full == Len(page) = walk.size
           IN  walk' = [walk EXCEPT !.seen = Noted(@, page),
                                    !.cursor = IF full THEN Last(page) ELSE None,
                                    !.pc = IF full THEN "page" ELSE "end"]
    BY <1>4 DEF QueryApi
  <2>2. page \in Seq(Ids) /\ Len(page) \in 0..walk.size
    BY <1>2, <2>1, PageLemma DEF PagingInv
  <2>3. SubSeq(page, 1, Len(page)) = page /\ Len(page) \in 0..Len(page)
    BY <2>2, SubSeqFull
  <2>4. Len(Noted(walk.seen, page)) = Len(walk.seen) + Len(page)
    BY <2>2, <2>3, NotedGrows
  <2>5. /\ walk'.seen = Noted(walk.seen, page)
        /\ walk'.pc = IF Len(page) = walk.size THEN "page" ELSE "end"
    BY <2>1 DEF PagingInv, Fields
  <2>. QED
    BY <1>1, <1>2, <1>3, <2>2, <2>4, <2>5
<1>5. CASE QueryWeb
  <2>1. PICK page \in ListFiles(Reader, walk.size + 1, walk.after) :
           LET older == Len(page) > walk.size
           IN  walk' = [walk EXCEPT
                           !.seen = Noted(@, IF older THEN Front(page) ELSE page),
                           !.after = IF older THEN At(page[walk.size]) ELSE None,
                           !.pc = IF older THEN "page" ELSE "end"]
    BY <1>5 DEF QueryWeb
  <2>2. page \in Seq(Ids) /\ Len(page) \in 0..(walk.size + 1)
    BY <1>2, <2>1, PageLemma DEF PagingInv
  <2>. DEFINE older == Len(page) > walk.size
  <2>3. PICK k \in 0..Len(page) :
           /\ k = IF older THEN walk.size ELSE Len(page)
           /\ (IF older THEN Front(page) ELSE page) = SubSeq(page, 1, k)
    BY <1>2, <2>2, SubSeqFull DEF Front
  <2>4. Len(Noted(walk.seen, SubSeq(page, 1, k))) = Len(walk.seen) + k
    BY <2>2, NotedGrows
  <2>5. /\ walk'.seen = Noted(walk.seen, SubSeq(page, 1, k))
        /\ walk'.pc = IF older THEN "page" ELSE "end"
    BY <2>1, <2>3 DEF PagingInv, Fields
  <2>. QED
    BY <1>1, <1>2, <1>3, <2>2, <2>3, <2>4, <2>5
<1>. QED
  BY <1>4, <1>5

LEMMA PagingRunsOut ==
    ASSUME PagingInv, PagingInv', Paging \/ ReadFails
    PROVE  StepsLeft' \in Nat /\ StepsLeft' < StepsLeft
<1>1. PICK c : c = Cardinality(Ids)
  OBVIOUS
<1>2. PICK n : n = Len(walk.seen)
  OBVIOUS
<1>3. PICK m : m = Len(walk'.seen)
  OBVIOUS
<1>4. c \in Nat /\ n \in Nat /\ c - n \in Nat
  BY <1>1, <1>2, RoomLemma, FS_CardinalityType, IdAssumption DEF RoomIsLeft
<1>5. m \in Nat /\ c - m \in Nat
  <2>1. RoomIsLeft'
    BY RoomLemma, PTL
  <2>. QED
    BY <1>1, <1>3, <2>1 DEF RoomIsLeft
<1>6. PICK p : p = walk.pc
  OBVIOUS
<1>7. PICK q : q = walk'.pc
  OBVIOUS
<1>. DEFINE Phase(r) == CASE r = "page" -> 3 [] r = "cursor" -> 2 [] r = "query" -> 1
                          [] OTHER -> 0
<1>8. StepsLeft = 3 * (c - n) + Phase(p)
  BY <1>1, <1>2, <1>6 DEF StepsLeft
<1>9. StepsLeft' = 3 * (c - m) + Phase(q)
  BY <1>1, <1>3, <1>7 DEF StepsLeft
<1>10. CASE QueryApi \/ QueryWeb
  <2>1. p = "query" /\ ((q = "page" /\ m > n) \/ (q = "end" /\ m >= n))
    BY <1>2, <1>3, <1>6, <1>7, <1>10, QueryGetsOn
  <2>. QED
    BY <1>4, <1>5, <1>8, <1>9, <2>1
<1>11. CASE FollowApi \/ FollowWeb \/ Resolve
  <2>1. walk'.seen = walk.seen
    BY <1>11 DEF PagingInv, Fields, FollowApi, FollowWeb, Resolve
  <2>2. \/ p = "page" /\ q \in {"cursor", "query"}
        \/ p = "cursor" /\ q \in {"query", "refused"}
    BY <1>6, <1>7, <1>11 DEF PagingInv, Fields, FollowApi, FollowWeb, Resolve
  <2>3. m = n
    BY <1>2, <1>3, <2>1
  <2>. QED
    BY <1>4, <1>5, <1>8, <1>9, <2>2, <2>3
<1>12. CASE ReadFails
  <2>1. walk'.seen = walk.seen /\ p \in {"cursor", "query"} /\ q = "failed"
    BY <1>6, <1>7, <1>12 DEF PagingInv, Fields, ReadFails
  <2>2. m = n
    BY <1>2, <1>3, <2>1
  <2>. QED
    BY <1>4, <1>5, <1>8, <1>9, <2>1, <2>2
<1>. QED
  BY <1>10, <1>11, <1>12 DEF Paging

\* No walk goes round in circles, for any table and whatever happens to it between
\* the pages: every step of the reader brings the end nearer.  With the fairness of
\* the reader this is why WalksEnd holds.
THEOREM WalksGetOn == Spec => WalksRunOut
<1>1. PagingInv /\ PagingInv' /\ [Next]_vars =>
          [/\ Paging \/ ReadFails => StepsLeft' \in Nat /\ StepsLeft' < StepsLeft
           /\ Table => StepsLeft' = StepsLeft]_vars
  <2>. SUFFICES ASSUME PagingInv, PagingInv'
                PROVE  /\ Paging \/ ReadFails => StepsLeft' \in Nat /\ StepsLeft' < StepsLeft
                       /\ Table => StepsLeft' = StepsLeft
    OBVIOUS
  <2>1. Table => walk' = walk
    BY DEF Table, Tick, Stamp, Insert, Delete
  <2>. QED
    BY <2>1, PagingRunsOut DEF StepsLeft
<1>. QED
  BY <1>1, PagingInvHolds, PTL DEF Spec, WalksRunOut
=============================================================================
