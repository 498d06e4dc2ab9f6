-------------------------- MODULE FileReadsProofs --------------------------
(***************************************************************************)
(* What holds of the downloads of FileReads beside any number of writers,   *)
(* for every set of readers, viewers, files, contents and ways to ask.      *)
(***************************************************************************)
EXTENDS FileReads, FileHistoryProofs

----------------------------------------------------------------------------
(* Byte ranges.                                                             *)

\* A download with a Range header sends exactly the bytes the header names, of
\* the size it was parsed against, and answers 416 exactly when it names none
\* (parseByteRange, serve.go:196-239).
THEOREM RangeIsNamed ==
    ASSUME NEW h \in Header, NEW size \in Nat
    PROVE  LET span == ParseByteRange(h, size) IN
           /\ span.start .. span.end = Named(h, size)
           /\ span = Unsatisfiable <=> Named(h, size) = {}
  <1> DEFINE span == ParseByteRange(h, size)
  <1> USE DEF ParseByteRange, Named, Span, Lower, Unsatisfiable
  <1>1. CASE h.form = "malformed"
    <2>1. span = Unsatisfiable
      BY <1>1
    <2>2. Named(h, size) = {}
      BY <1>1
    <2> QED BY <2>1, <2>2
  <1>2. CASE h.form = "suffix" /\ h.length \in Int
    <2>1. CASE size > 0 /\ h.length > 0
      <3>1. span.start = size - Lower(h.length, size) /\ span.end = size - 1
        BY <1>2, <2>1
      <3>2. size - 1 \in Named(h, size)
        BY <1>2, <2>1
      <3>3. \A b \in Int : b \in span.start .. span.end <=> b \in Named(h, size)
        BY <1>2, <2>1, <3>1
      <3> QED BY <3>1, <3>2, <3>3, <1>2, <2>1
    <2>2. CASE ~(size > 0 /\ h.length > 0)
      <3>1. span = Unsatisfiable
        BY <1>2, <2>2
      <3>2. Named(h, size) = {}
        BY <1>2, <2>2
      <3> QED BY <3>1, <3>2
    <2> QED BY <2>1, <2>2
  <1>3. CASE h.form = "open" /\ h.first \in Int
    <2>1. CASE size > 0 /\ h.first \in 0..(size - 1)
      <3>1. span.start = h.first /\ span.end = size - 1
        BY <1>3, <2>1
      <3>2. size - 1 \in Named(h, size)
        BY <1>3, <2>1
      <3>3. \A b \in Int : b \in span.start .. span.end <=> b \in Named(h, size)
        BY <1>3, <2>1, <3>1
      <3> QED BY <3>1, <3>2, <3>3, <1>3, <2>1
    <2>2. CASE ~(size > 0 /\ h.first \in 0..(size - 1))
      <3>1. span = Unsatisfiable
        BY <1>3, <2>2
      <3>2. Named(h, size) = {}
        BY <1>3, <2>2
      <3> QED BY <3>1, <3>2
    <2> QED BY <2>1, <2>2
  <1>4. CASE h.form = "from" /\ h.first \in Int /\ h.last \in Int
    <2>1. CASE size > 0 /\ h.first \in 0..(size - 1) /\ h.last >= h.first
      <3>1. span.start = h.first /\ span.end = Lower(h.last, size - 1)
        BY <1>4, <2>1
      <3>2. h.first \in Named(h, size)
        BY <1>4, <2>1
      <3>3. \A b \in Int : b \in span.start .. span.end <=> b \in Named(h, size)
        BY <1>4, <2>1, <3>1
      <3> QED BY <3>1, <3>2, <3>3, <1>4, <2>1
    <2>2. CASE ~(size > 0 /\ h.first \in 0..(size - 1) /\ h.last >= h.first)
      <3>1. span = Unsatisfiable
        BY <1>4, <2>2
      <3>2. Named(h, size) = {}
        BY <1>4, <2>2
      <3> QED BY <3>1, <3>2
    <2> QED BY <2>1, <2>2
  <1>5. \/ h.form = "malformed"
        \/ h.form = "suffix" /\ h.length \in Int
        \/ h.form = "open" /\ h.first \in Int
        \/ h.form = "from" /\ h.first \in Int /\ h.last \in Int
    BY DEF Header
  <1> QED BY <1>1, <1>2, <1>3, <1>4, <1>5

\* A range that can be served lies within a file of the size it was made for.
LEMMA SpanLemma ==
    ASSUME NEW h \in Header, NEW stored \in Stored,
           ParseByteRange(h, stored.size) # Unsatisfiable
    PROVE  LET span == ParseByteRange(h, stored.size) IN
           /\ span \in Spans
           /\ span.start \in Nat /\ span.end \in Nat
           /\ span.start < stored.size /\ span.end < stored.size
<1>1. stored.size \in Sizes /\ stored.size \in Nat
  BY SizeAssumption DEF Stored, Sizes
<1>2. LET span == ParseByteRange(h, stored.size) IN
      span \in [start: 0..(stored.size - 1), end: 0..(stored.size - 1)]
  BY <1>1 DEF ParseByteRange, Span, Lower, Unsatisfiable, Header
<1>. QED
  BY <1>1, <1>2 DEF Spans

----------------------------------------------------------------------------
(* Types.                                                                   *)

\* A download that has begun has a file and a way to ask for it; nothing is
\* known of the file before its headers, and nothing delivered before its bytes.
Begun(w) ==
    /\ w.pc # "idle" => w.id \in Ids /\ w.ask \in Asks
    /\ w.pc = "find" => w.kind = "link"
    /\ w.pc # "done" => w.body = None /\ w.status = None
    /\ w.pc \in {"idle", "find", "own", "head"} => w.says = None /\ w.span = None

ReadInv ==
    /\ HistoryInv
    /\ ViewsTypeOK
    /\ \A v \in Readers : Begun(views[v])

LEMMA ReadInit == RInit => ReadInv
BY HistoryInit DEF RInit, ReadInv, ViewsTypeOK, Download, Resting, Begun, Statuses, Answers

\* A step of a download changes that download alone.
LEMMA ViewLemma ==
    ASSUME ViewsTypeOK, NEW v \in Readers, View(v)
    PROVE  /\ UNCHANGED hvars
           /\ DOMAIN views' = Readers
           /\ \A x \in Readers : x # v => views'[x] = views[x]
<1>1. \A x : Shown(v, x) => /\ DOMAIN views' = Readers
                            /\ \A y \in Readers : y # v => views'[y] = views[y]
  BY DEF Shown, ViewsTypeOK
<1>. QED
  BY <1>1 DEF View, BeginView, EndView, Find, OwnView, Head, Open, BehindTheEnd,
              Continue, Finish

\* What a download keeps in mind changes neither its type nor where it stands.
LEMMA RememberLemma ==
    ASSUME NEW w \in Download, NEW t, NEW files
    PROVE  LET x == Remember(w, t, files) IN
           /\ x \in Download
           /\ x.kind = w.kind /\ x.pc = w.pc /\ x.user = w.user /\ x.id = w.id
           /\ x.slug = w.slug /\ x.ask = w.ask /\ x.says = w.says /\ x.span = w.span
           /\ x.status = w.status /\ x.body = w.body
           /\ x.readable = (w.readable \/ (Underway(w) /\ Readable(w, t)))
           /\ x.calm = (w.calm /\ (Underway(w) => w.id \in files))
<1>. DEFINE readable == w.readable \/ Readable(w, t)
            calm == w.calm /\ w.id \in files
<1>1. CASE Underway(w)
  <2>1. readable \in BOOLEAN /\ calm \in BOOLEAN
    OBVIOUS
  <2>2. Remember(w, t, files) = [w EXCEPT !.readable = readable, !.calm = calm]
    BY <1>1 DEF Remember
  <2>. HIDE DEF readable, calm
  <2>3. LET x == Remember(w, t, files) IN
        /\ x \in Download /\ x.readable = readable /\ x.calm = calm
        /\ x.kind = w.kind /\ x.pc = w.pc /\ x.user = w.user /\ x.id = w.id
        /\ x.slug = w.slug /\ x.ask = w.ask /\ x.says = w.says /\ x.span = w.span
        /\ x.status = w.status /\ x.body = w.body
    BY <2>1, <2>2, ZenonT(40) DEF Download
  <2>. QED
    BY <1>1, <2>3 DEF readable, calm
<1>2. CASE ~Underway(w)
  BY <1>2 DEF Remember, Download
<1>. QED
  BY <1>1, <1>2
LEMMA TypedLemma ==
    ASSUME ReadInv, NEW v \in Readers, View(v)
    PROVE  views'[v] \in Download /\ Begun(views'[v])
<1>. DEFINE w == views[v]
<1>a. /\ w \in Download /\ Begun(w)
      /\ \A i \in DOMAIN rows : i \in Ids /\ rows[i].stored \in Stored
      /\ \A i \in DOMAIN blobs : blobs[i] \in Contents
  BY DEF ReadInv, ViewsTypeOK, HistoryInv, OwnershipInv, TypeInv, TypeOK, Row
<1>b. \A x : Shown(v, x) => views'[v] = x
  BY DEF Shown, ReadInv, ViewsTypeOK
<1>c. ASSUME NEW status \in Statuses, Finish(v, status), w.pc \notin {"idle", "done"}
      PROVE  views'[v] \in Download /\ Begun(views'[v])
  <2>1. views'[v] = [w EXCEPT !.pc = "done", !.status = status]
    BY <1>b, <1>c DEF Finish
  <2>. QED
    BY <1>a, <1>c, <2>1, ZenonT(40) DEF Download, Begun
<1>1. CASE BeginView(v)
  <2>1. PICK k \in {"link", "content", "rpc"}, i \in Ids, a \in Asks,
             u \in Viewers \cup {None}, s \in Values :
          Shown(v, Remember([Resting EXCEPT
               !.kind = k, !.user = u, !.id = i, !.ask = a, !.calm = TRUE,
               !.slug = IF k = "link" THEN s ELSE None,
               !.pc = IF k = "link" THEN "find" ELSE "own"], rows, CalmFiles))
    BY <1>1, ZenonT(40) DEF BeginView
  <2>. DEFINE x == [Resting EXCEPT
               !.kind = k, !.user = u, !.id = i, !.ask = a, !.calm = TRUE,
               !.slug = IF k = "link" THEN s ELSE None,
               !.pc = IF k = "link" THEN "find" ELSE "own"]
  <2>2. x \in Download /\ Begun(x)
    BY DEF Resting, Download, Begun, Statuses, Answers
  <2>. HIDE DEF x
  <2>3. views'[v] = Remember(x, rows, CalmFiles)
    BY <1>b, <2>1 DEF x
  <2>. QED
    BY <2>2, <2>3, RememberLemma DEF Begun
<1>2. CASE EndView(v)
  <2>1. views'[v] = Resting
    BY <1>2, <1>b DEF EndView
  <2>. QED
    BY <2>1 DEF Resting, Download, Begun, Statuses, Answers
<1>3. CASE Find(v)
  <2>1. Continue(v, "head") => views'[v] = [w EXCEPT !.pc = "head"]
    BY <1>b DEF Continue
  <2>2. [w EXCEPT !.pc = "head"] \in Download /\ Begun([w EXCEPT !.pc = "head"])
    BY <1>3, <1>a DEF Find, Download, Begun
  <2>. QED
    BY <1>3, <1>c, <2>1, <2>2 DEF Find, Statuses, Answers
<1>4. CASE OwnView(v)
  <2>. DEFINE to(pc) == [w EXCEPT !.pc = pc]
  <2>1. \A pc : Continue(v, pc) => views'[v] = to(pc)
    BY <1>b DEF Continue
  <2>2. \A pc \in {"open", "head"} : to(pc) \in Download /\ Begun(to(pc))
    BY <1>4, <1>a DEF OwnView, Download, Begun
  <2>3. Ownership(w.id, w.user) \in {"ok", "denied", "not_found"}
    BY DEF Ownership
  <2>. HIDE DEF to
  <2>. QED
    BY <1>4, <1>c, <2>1, <2>2, <2>3 DEF OwnView, Statuses, Answers
<1>5. CASE Head(v)
  <2>. DEFINE stored == rows[w.id].stored
              span == ParseByteRange(w.ask.want, stored.size)
              said == [w EXCEPT !.says = stored]
              closed(status) == [said EXCEPT !.pc = "done", !.status = status]
              next == IF w.ask.head THEN "done" ELSE "open"
              status2 == IF w.ask.head THEN "partial" ELSE None
              ranged == [said EXCEPT !.span = span, !.pc = next, !.status = status2]
              whole == [said EXCEPT !.pc = "open"]
  <2>1. w.pc = "head" /\ w.status = None
    BY <1>5, <1>a DEF Head, Begun
  <2>2. \/ \E status \in {"not_found", "unavailable"} : Finish(v, status)
        \/ /\ w.id \in DOMAIN rows
           /\ \/ \E status \in {"not_modified", "unsatisfiable", "ok"} : Shown(v, closed(status))
              \/ w.ask.want # None /\ span # Unsatisfiable /\ Shown(v, ranged)
              \/ Shown(v, whole)
    BY <1>5 DEF Head
  <2>3. CASE \E status \in {"not_found", "unavailable"} : Finish(v, status)
    BY <2>1, <2>3, <1>c DEF Statuses, Answers
  <2>a. ASSUME w.id \in DOMAIN rows
        PROVE  /\ said \in Download /\ said.pc = "head" /\ said.status = None
               /\ said.id \in Ids /\ said.ask \in Asks /\ said.body = None
    <3>1. stored \in Stored
      BY <1>a, <2>a
    <3>. HIDE DEF stored
    <3>. QED
      BY <1>a, <2>1, <3>1 DEF Download, Begun
  <2>4. ASSUME w.id \in DOMAIN rows, NEW status \in {"not_modified", "unsatisfiable", "ok"},
               Shown(v, closed(status))
        PROVE  views'[v] \in Download /\ Begun(views'[v])
    <3>1. views'[v] = closed(status)
      BY <1>b, <2>4
    <3>. HIDE DEF said
    <3>. QED
      BY <2>a, <2>4, <3>1, ZenonT(40) DEF Download, Begun, Statuses, Answers
  <2>5. CASE w.id \in DOMAIN rows /\ w.ask.want # None /\ span # Unsatisfiable /\ Shown(v, ranged)
    <3>1. w.ask.want \in Header
      BY <2>1, <2>5, <1>a, AskAssumption DEF Begun, Ask
    <3>2. span \in Spans
      BY <3>1, <2>5, <1>a, SpanLemma
    <3>3. views'[v] = ranged
      BY <1>b, <2>5
    <3>4. next \in {"open", "done"} /\ status2 \in Statuses /\ (next = "open" => status2 = None)
      BY DEF Statuses, Answers
    <3>. HIDE DEF said, span, next, status2
    <3>. QED
      BY <2>a, <2>5, <3>2, <3>3, <3>4, ZenonT(40) DEF Download, Begun
  <2>6. CASE w.id \in DOMAIN rows /\ Shown(v, whole)
    <3>1. views'[v] = whole
      BY <1>b, <2>6
    <3>. HIDE DEF said
    <3>. QED
      BY <2>a, <2>6, <3>1 DEF Download, Begun
  <2>. QED
    BY <2>2, <2>3, <2>4, <2>5, <2>6
<1>6. CASE Open(v)
  <2>. DEFINE c == blobs[w.id]
              sent(status, bytes) == [w EXCEPT !.pc = "done", !.status = status,
                                               !.body = [content |-> c, bytes |-> bytes]]
  <2>1. w.pc = "open"
    BY <1>6 DEF Open
  <2>2. CASE \E status \in {"not_found", "error", "panic", "unavailable"} : Finish(v, status)
    BY <2>1, <2>2, <1>c DEF Statuses, Answers
  <2>3. ASSUME w.id \in DOMAIN blobs, NEW status \in {"ok", "partial"},
               NEW bytes \in SUBSET (0..(Size[c] - 1)), Shown(v, sent(status, bytes))
        PROVE  views'[v] \in Download /\ Begun(views'[v])
    <3>1. [content |-> c, bytes |-> bytes] \in Bodies
      BY <1>a, <2>3 DEF Bodies
    <3>2. views'[v] = sent(status, bytes)
      BY <1>b, <2>3
    <3>. QED
      BY <2>1, <2>3, <3>1, <3>2, <1>a, ZenonT(40) DEF Download, Begun, Statuses, Answers
  <2>4. \/ \E status \in {"not_found", "error", "panic", "unavailable"} : Finish(v, status)
        \/ /\ w.id \in DOMAIN blobs
           /\ \/ Shown(v, sent("ok", 0..(Size[c] - 1)))
              \/ Shown(v, sent("partial", Slice(c, w.span)))
              \/ Shown(v, sent("partial", {}))
    BY <1>6 DEF Open, BehindTheEnd
  <2>5. Slice(c, w.span) \in SUBSET (0..(Size[c] - 1))
    BY DEF Slice
  <2>. HIDE DEF sent
  <2>. QED
    BY <2>2, <2>3, <2>4, <2>5
<1>. QED
  BY <1>1, <1>2, <1>3, <1>4, <1>5, <1>6 DEF View
\* A step leaves alone what every download knows, except that one of them may
\* take a step of its own.
LEMMA ReadNext == ReadInv /\ [RNext]_rvars => ReadInv'
<1>. SUFFICES ASSUME ReadInv, [RNext]_rvars PROVE ReadInv'
  OBVIOUS
<1>0. ViewsTypeOK /\ HistoryInv
  BY DEF ReadInv
<1>1. CASE Written
  <2>1. HistoryInv'
    BY <1>0, <1>1, HistoryNext DEF Written
  <2>2. \A v \in Readers : views[v] \in Download /\ Begun(views[v])
    BY DEF ReadInv, ViewsTypeOK
  <2>3. \A v \in Readers : views'[v] = Remember(views[v], rows', CalmFiles')
    BY <1>1 DEF Written
  <2>4. \A v \in Readers : views'[v] \in Download /\ Begun(views'[v])
    BY <2>2, <2>3, RememberLemma DEF Begun
  <2>5. views' = [v \in Readers |-> views'[v]]
    BY <1>1 DEF Written
  <2>. QED
    BY <2>1, <2>4, <2>5 DEF ReadInv, ViewsTypeOK
<1>2. ASSUME NEW v \in Readers, View(v) PROVE ReadInv'
  <2>1. HistoryInv'
    BY <1>0, <1>2, ViewLemma, HistoryNext
  <2>2. /\ DOMAIN views' = Readers
        /\ \A x \in Readers : x # v => views'[x] = views[x]
        /\ views'[v] \in Download /\ Begun(views'[v])
    BY <1>0, <1>2, ViewLemma, TypedLemma
  <2>3. views' = [x \in Readers |-> views'[x]]
    BY <1>0, <1>2 DEF View, BeginView, EndView, Find, OwnView, Head, Open, BehindTheEnd,
                      Continue, Finish, Shown, ViewsTypeOK
  <2>. QED
    BY <2>1, <2>2, <2>3 DEF ReadInv, ViewsTypeOK
<1>3. CASE UNCHANGED rvars
  BY <1>0, <1>3, HistoryNext DEF rvars, hvars, ReadInv, ViewsTypeOK
<1>. QED
  BY <1>1, <1>2, <1>3 DEF RNext

\* Downloads change nothing: whatever they read, and whenever, the file service
\* beside them behaves as it does without them (the handlers of serve.go and
\* http.go:19-32 write neither rows nor bytes).
THEOREM DownloadsChangeNothing == RSpec => HSpec
<1>1. RInit => HInit
  BY DEF RInit
<1>2. ReadInv /\ [RNext]_rvars => [HNext]_hvars
  BY ViewLemma DEF RNext, Written, rvars, hvars, ReadInv
<1>. QED
  BY <1>1, <1>2, ReadInit, ReadNext, PTL DEF RSpec, HSpec

\* Whatever the writers do meanwhile, a download's record stays one: a span it
\* serves lies within a file, and what it delivers within the content it opened.
THEOREM DownloadTypesCorrect == RSpec => []ViewsTypeOK
<1>1. ReadInv => ViewsTypeOK
  BY DEF ReadInv
<1>. QED
  BY <1>1, ReadInit, ReadNext, PTL DEF RSpec

----------------------------------------------------------------------------
(* Who is served.                                                           *)

\* A download is past the decision only if the decision was right once, and it
\* remembers every state that would have let it read.
Allowed(w, t) ==
    /\ w.pc \in {"head", "open"} \/ w.body # None => w.readable
    /\ Underway(w) /\ Readable(w, t) => w.readable

AllowedInv == ReadInv /\ \A v \in Readers : Allowed(views[v], rows)

\* What ServeFile makes of a request before it goes to the store.
LEMMA HeadLemma ==
    ASSUME ReadInv, NEW v \in Readers, Head(v)
    PROVE  LET w == views[v]
               x == views'[v]
               stored == rows[w.id].stored
               span == ParseByteRange(w.ask.want, stored.size)
           IN
           /\ w.pc = "head" /\ x.kind = w.kind /\ x.user = w.user /\ x.id = w.id
           /\ x.ask = w.ask /\ x.readable = w.readable /\ x.calm = w.calm
           /\ x.body = None /\ x.pc \in {"open", "done"}
           /\ \/ /\ x.status \in {"not_found", "unavailable"} /\ x.pc = "done"
                 /\ x.says = None /\ x.span = None
              \/ /\ w.id \in DOMAIN rows /\ x.says = stored
                 /\ \/ x.span = None /\ x.status \in {"not_modified", "ok"} /\ x.pc = "done"
                    \/ /\ x.span = None /\ x.status = "unsatisfiable" /\ x.pc = "done"
                       /\ w.ask.want # None /\ span = Unsatisfiable
                    \/ /\ x.span = span /\ x.status \in {"partial", None}
                       /\ w.ask.want # None /\ span # Unsatisfiable
                    \/ x.span = None /\ x.status = None /\ x.pc = "open"
<1>. DEFINE w == views[v]
            stored == rows[w.id].stored
            span == ParseByteRange(w.ask.want, stored.size)
            said == [w EXCEPT !.says = stored]
            closed(status) == [said EXCEPT !.pc = "done", !.status = status]
            next == IF w.ask.head THEN "done" ELSE "open"
            status2 == IF w.ask.head THEN "partial" ELSE None
            ranged == [said EXCEPT !.span = span, !.pc = next, !.status = status2]
            whole == [said EXCEPT !.pc = "open"]
<1>a. /\ w \in Download /\ \A x : Shown(v, x) => views'[v] = x
      /\ w.pc = "head" /\ w.status = None /\ w.body = None /\ w.says = None /\ w.span = None
  BY DEF ReadInv, ViewsTypeOK, Shown, Begun, Head
<1>b. \/ \E status \in {"not_found", "unavailable"} : Finish(v, status)
      \/ /\ w.id \in DOMAIN rows
         /\ \/ \E status \in {"not_modified", "ok"} : Shown(v, closed(status))
            \/ w.ask.want # None /\ span = Unsatisfiable /\ Shown(v, closed("unsatisfiable"))
            \/ w.ask.want # None /\ span # Unsatisfiable /\ Shown(v, ranged)
            \/ Shown(v, whole)
  BY DEF Head
<1>. HIDE DEF stored, span
<1>1. ASSUME NEW status, Finish(v, status), status \in {"not_found", "unavailable"}
      PROVE  views'[v] = [w EXCEPT !.pc = "done", !.status = status]
  BY <1>a, <1>1 DEF Finish
<1>2. ASSUME NEW status, Shown(v, closed(status)) PROVE views'[v] = closed(status)
  BY <1>a, <1>2
<1>3. ASSUME Shown(v, ranged) PROVE views'[v] = ranged
  BY <1>a, <1>3
<1>4. ASSUME Shown(v, whole) PROVE views'[v] = whole
  BY <1>a, <1>4
<1>5. CASE \E status \in {"not_found", "unavailable"} : Finish(v, status)
  <2>1. PICK status \in {"not_found", "unavailable"} :
            views'[v] = [w EXCEPT !.pc = "done", !.status = status]
    BY <1>5, <1>1
  <2>. QED
    BY <2>1, <1>a DEF Download
<1>6. CASE w.id \in DOMAIN rows /\ \E status \in {"not_modified", "ok"} : Shown(v, closed(status))
  <2>1. PICK status \in {"not_modified", "ok"} : views'[v] = closed(status)
    BY <1>6, <1>2
  <2>. QED
    BY <2>1, <1>6, <1>a DEF Download, stored
<1>7. CASE /\ w.id \in DOMAIN rows
           /\ w.ask.want # None /\ span = Unsatisfiable /\ Shown(v, closed("unsatisfiable"))
  BY <1>7, <1>2, <1>a, ZenonT(40) DEF Download, stored, span
<1>8. CASE /\ w.id \in DOMAIN rows
           /\ w.ask.want # None /\ span # Unsatisfiable /\ Shown(v, ranged)
  <2>1. next \in {"open", "done"} /\ status2 \in {"partial", None}
    OBVIOUS
  <2>. HIDE DEF next, status2
  <2>. QED
    BY <1>8, <1>3, <2>1, <1>a DEF Download, stored, span
<1>9. CASE w.id \in DOMAIN rows /\ Shown(v, whole)
  BY <1>9, <1>4, <1>a DEF Download, stored
<1>. QED
  BY <1>b, <1>5, <1>6, <1>7, <1>8, <1>9

\* What becomes of a download when the store is asked for the bytes.
LEMMA OpenLemma ==
    ASSUME ReadInv, NEW v \in Readers, Open(v)
    PROVE  LET w == views[v]
               x == views'[v]
               c == blobs[w.id]
           IN
           /\ w.pc = "open" /\ x.kind = w.kind /\ x.user = w.user /\ x.id = w.id
           /\ x.ask = w.ask /\ x.readable = w.readable /\ x.calm = w.calm
           /\ x.says = w.says /\ x.span = w.span /\ x.pc = "done"
           /\ \/ x.body = None /\ x.status = "unavailable"
              \/ /\ w.id \notin DOMAIN blobs
                 /\ x.body = None /\ x.status = IF w.kind = "rpc" THEN "not_found" ELSE "error"
              \/ /\ w.id \in DOMAIN blobs
                 /\ \/ /\ w.span = None /\ x.status = "ok"
                       /\ x.body = [content |-> c, bytes |-> 0..(Size[c] - 1)]
                    \/ /\ w.span # None /\ w.span.start < Size[c] /\ x.status = "partial"
                       /\ x.body = [content |-> c, bytes |-> Slice(c, w.span)]
                    \/ /\ w.span # None /\ w.span.start >= Size[c]
                       /\ x.status \in {"partial", "panic", "error"}
<1>. DEFINE w == views[v]
            c == blobs[w.id]
            sent(status, bytes) == [w EXCEPT !.pc = "done", !.status = status,
                                             !.body = [content |-> c, bytes |-> bytes]]
<1>a. /\ w \in Download /\ \A x : Shown(v, x) => views'[v] = x
      /\ w.pc = "open" /\ w.status = None /\ w.body = None
  BY DEF ReadInv, ViewsTypeOK, Shown, Begun, Open
<1>1. ASSUME NEW status, Finish(v, status)
      PROVE  LET x == views'[v] IN
             /\ x.kind = w.kind /\ x.user = w.user /\ x.id = w.id
             /\ x.ask = w.ask /\ x.readable = w.readable /\ x.calm = w.calm
             /\ x.says = w.says /\ x.span = w.span /\ x.pc = "done"
             /\ x.body = None /\ x.status = status
  <2>1. views'[v] = [w EXCEPT !.pc = "done", !.status = status]
    BY <1>a, <1>1 DEF Finish
  <2>. QED
    BY <1>a, <2>1 DEF Download
<1>2. ASSUME NEW status, NEW bytes, Shown(v, sent(status, bytes))
      PROVE  LET x == views'[v] IN
             /\ x.kind = w.kind /\ x.user = w.user /\ x.id = w.id
             /\ x.ask = w.ask /\ x.readable = w.readable /\ x.calm = w.calm
             /\ x.says = w.says /\ x.span = w.span /\ x.pc = "done"
             /\ x.body = [content |-> c, bytes |-> bytes] /\ x.status = status
  <2>1. views'[v] = sent(status, bytes)
    BY <1>a, <1>2
  <2>. QED
    BY <1>a, <2>1 DEF Download
<1>3. \/ Finish(v, "unavailable")
      \/ /\ w.id \notin DOMAIN blobs
         /\ Finish(v, IF w.kind = "rpc" THEN "not_found" ELSE "error")
      \/ /\ w.id \in DOMAIN blobs
         /\ \/ w.span = None /\ Shown(v, sent("ok", 0..(Size[c] - 1)))
            \/ /\ w.span # None /\ w.span.start < Size[c]
               /\ Shown(v, sent("partial", Slice(c, w.span)))
            \/ /\ w.span # None /\ w.span.start >= Size[c]
               /\ \/ Shown(v, sent("partial", {}))
                  \/ Finish(v, "panic") \/ Finish(v, "error")
  BY DEF Open, BehindTheEnd
<1>. HIDE DEF sent, c
<1>. QED
  BY <1>a, <1>1, <1>2, <1>3 DEF c

\* What a step of a download under way leaves alone, and where it comes from.
LEMMA CourseLemma ==
    ASSUME ReadInv, NEW v \in Readers, Find(v) \/ OwnView(v) \/ Head(v) \/ Open(v)
    PROVE  LET w == views[v]
               x == views'[v]
           IN
           /\ Underway(w)
           /\ x.kind = w.kind /\ x.user = w.user /\ x.id = w.id /\ x.ask = w.ask
           /\ x.readable = w.readable /\ x.calm = w.calm
           /\ x.pc \in {"head", "open"} =>
                  \/ Find(v) /\ MayRead(w.user, rows[w.id]) /\ w.id \in DOMAIN rows
                  \/ OwnView(v) /\ Ownership(w.id, w.user) = "ok"
                  \/ Head(v)
           /\ x.body # None => Open(v)
           /\ Find(v) \/ OwnView(v) =>
                  /\ x.says = None /\ x.span = None /\ x.body = None
                  /\ x.status \notin {"unsatisfiable", "error", "panic"}
<1>. DEFINE w == views[v]
            same(x) == /\ x.kind = w.kind /\ x.user = w.user /\ x.id = w.id /\ x.ask = w.ask
                       /\ x.readable = w.readable /\ x.calm = w.calm
                       /\ x.says = w.says /\ x.span = w.span
<1>a. w \in Download /\ Begun(w) /\ \A x : Shown(v, x) => views'[v] = x
  BY DEF ReadInv, ViewsTypeOK, Shown
<1>b. ASSUME NEW status, Finish(v, status)
      PROVE  /\ same(views'[v]) /\ views'[v].pc = "done" /\ views'[v].body = w.body
             /\ views'[v].status = status
  <2>1. views'[v] = [w EXCEPT !.pc = "done", !.status = status]
    BY <1>a, <1>b DEF Finish
  <2>. QED
    BY <1>a, <2>1 DEF Download
<1>c. ASSUME NEW pc, Continue(v, pc)
      PROVE  /\ same(views'[v]) /\ views'[v].pc = pc /\ views'[v].body = w.body
             /\ views'[v].status = w.status
  <2>1. views'[v] = [w EXCEPT !.pc = pc]
    BY <1>a, <1>c DEF Continue
  <2>. QED
    BY <1>a, <2>1 DEF Download
<1>1. CASE Find(v)
  <2>1. /\ w.pc = "find" /\ w.body = None /\ w.says = None /\ w.span = None
        /\ w.status \notin {"unsatisfiable", "error", "panic"}
    BY <1>a, <1>1, AnswerAssumption DEF Find, Begun, Answers
  <2>. HIDE DEF w, same
  <2>. QED
    BY <1>1, <1>b, <1>c, <2>1 DEF Find, Underway, same, w
<1>2. CASE OwnView(v)
  <2>1. /\ w.pc = "own" /\ w.body = None /\ w.says = None /\ w.span = None
        /\ w.status \notin {"unsatisfiable", "error", "panic"}
    BY <1>a, <1>2, AnswerAssumption DEF OwnView, Begun, Answers
  <2>2. Ownership(w.id, w.user) \in {"ok", "denied", "not_found"}
    BY DEF Ownership
  <2>. HIDE DEF w, same
  <2>. QED
    BY <1>2, <1>b, <1>c, <2>1, <2>2 DEF OwnView, Underway, same, w
<1>d. (Find(v) => w.pc = "find") /\ (OwnView(v) => w.pc = "own")
  BY DEF Find, OwnView
<1>3. CASE Head(v)
  BY <1>3, <1>d, HeadLemma DEF Underway
<1>4. CASE Open(v)
  BY <1>4, <1>d, OpenLemma DEF Underway
<1>. QED
  BY <1>1, <1>2, <1>3, <1>4

\* A download starts before its first look at the row.
LEMMA BeginLemma ==
    ASSUME ViewsTypeOK, NEW v \in Readers, BeginView(v)
    PROVE  LET x == views'[v] IN
           /\ x.pc \in {"find", "own"}
           /\ Readable(x, rows) => x.readable
           /\ x.calm => x.id \in CalmFiles
<1>. DEFINE x == views'[v]
<1>b. \A y : Shown(v, y) => views'[v] = y
  BY DEF ViewsTypeOK, Shown
<1>1. PICK y \in Download : /\ views'[v] = Remember(y, rows, CalmFiles)
                           /\ y.pc \in {"find", "own"}
  <2>. DEFINE y(k, u, i, a, s) == [Resting EXCEPT
             !.kind = k, !.user = u, !.id = i, !.ask = a, !.calm = TRUE,
             !.slug = IF k = "link" THEN s ELSE None,
             !.pc = IF k = "link" THEN "find" ELSE "own"]
  <2>1. \A k \in {"link", "content", "rpc"}, i \in Ids, a \in Asks,
           u \in Viewers \cup {None}, s \in Values :
               /\ y(k, u, i, a, s) \in Download /\ y(k, u, i, a, s).body = None
               /\ y(k, u, i, a, s).pc \in {"find", "own"}
    <3>1. ASSUME NEW k \in {"link", "content", "rpc"}, NEW i \in Ids, NEW a \in Asks,
                 NEW u \in Viewers \cup {None}, NEW s \in Values
          PROVE  /\ y(k, u, i, a, s) \in Download /\ y(k, u, i, a, s).body = None
                 /\ y(k, u, i, a, s).pc \in {"find", "own"}
      BY <3>1 DEF Resting, Download, Statuses, Answers
    <3>. QED
      BY <3>1
  <2>2. PICK k \in {"link", "content", "rpc"}, i \in Ids, a \in Asks,
           u \in Viewers \cup {None}, s \in Values :
               Shown(v, Remember(y(k, u, i, a, s), rows, CalmFiles))
    BY ZenonT(40) DEF BeginView
  <2>. HIDE DEF y
  <2>. QED
    BY <1>b, <2>1, <2>2
<1>2. Underway(y) /\ (Readable(x, rows) => Readable(y, rows))
  BY <1>1, RememberLemma DEF Underway, Readable
<1>3. /\ x.pc = y.pc /\ x.id = y.id /\ x.readable = (y.readable \/ Readable(y, rows))
      /\ x.calm = (y.calm /\ y.id \in CalmFiles)
  BY <1>1, <1>2, RememberLemma
<1>. HIDE DEF x
<1>4. /\ x.pc \in {"find", "own"} /\ (Readable(x, rows) => x.readable)
      /\ (x.calm => x.id \in CalmFiles)
  BY <1>1, <1>2, <1>3
<1>. QED
  BY <1>4 DEF x

LEMMA AllowedLemma ==
    ASSUME AllowedInv, NEW v \in Readers, View(v)
    PROVE  Allowed(views'[v], rows')
<1>. DEFINE w == views[v]
            x == views'[v]
<1>a. ReadInv /\ ReadInv' /\ w \in Download /\ Begun(w) /\ Allowed(w, rows) /\ rows' = rows
  BY ReadNext, ViewLemma DEF AllowedInv, ReadInv, ViewsTypeOK, RNext, hvars
<1>b. \A y : Shown(v, y) => views'[v] = y
  BY <1>a DEF ReadInv, ViewsTypeOK, Shown
<1>1. CASE BeginView(v)
  <2>1. Allowed(x, rows)
    <3>1. x.pc \in {"find", "own"} /\ x.body = None /\ (Readable(x, rows) => x.readable)
      BY <1>a, <1>1, BeginLemma DEF ReadInv, Begun
    <3>. HIDE DEF x
    <3>. QED
      BY <3>1 DEF Allowed
  <2>. QED
    BY <1>a, <2>1
<1>2. CASE EndView(v)
  <2>1. x = Resting
    BY <1>2, <1>b DEF EndView
  <2>2. x.pc = "idle" /\ x.body = None
    BY <2>1 DEF Resting
  <2>. QED
    BY <2>2 DEF Allowed, Underway
<1>3. CASE Find(v) \/ OwnView(v) \/ Head(v) \/ Open(v)
  <2>1. Readable(x, rows) = Readable(w, rows)
    BY <1>3, <1>a, CourseLemma DEF Readable
  <2>2. x.pc \in {"head", "open"} => w.readable
    <3>1. Find(v) /\ MayRead(w.user, rows[w.id]) /\ w.id \in DOMAIN rows => Readable(w, rows)
      BY <1>a DEF Find, MayRead, Readable, Begun
    <3>2. OwnView(v) /\ Ownership(w.id, w.user) = "ok" => Readable(w, rows)
      BY DEF Ownership, Readable
    <3>3. Head(v) => w.pc = "head"
      BY DEF Head
    <3>. QED
      BY <1>3, <1>a, <3>1, <3>2, <3>3, CourseLemma DEF Allowed
  <2>3. x.body # None => w.readable
    <3>1. Open(v) => w.pc = "open"
      BY DEF Open
    <3>. QED
      BY <1>3, <1>a, <3>1, CourseLemma DEF Allowed
  <2>4. Underway(w) /\ x.readable = w.readable
    BY <1>3, <1>a, CourseLemma
  <2>5. Allowed(x, rows)
    <3>. HIDE DEF w, x
    <3>. QED
      BY <1>a, <2>1, <2>2, <2>3, <2>4 DEF Allowed
  <2>. QED
    BY <1>a, <2>5
<1>. QED
  BY <1>1, <1>2, <1>3 DEF View

LEMMA AllowedNext == AllowedInv /\ [RNext]_rvars => AllowedInv'
<1>. SUFFICES ASSUME AllowedInv, [RNext]_rvars PROVE AllowedInv'
  OBVIOUS
<1>0. ReadInv /\ ReadInv' /\ ViewsTypeOK
  BY ReadNext DEF AllowedInv, ReadInv
<1>1. CASE Written
  <2>1. \A v \in Readers : /\ views[v] \in Download /\ Allowed(views[v], rows)
                          /\ views'[v] = Remember(views[v], rows', CalmFiles')
    BY <1>0, <1>1 DEF AllowedInv, ViewsTypeOK, Written
  <2>2. ASSUME NEW w \in Download, Allowed(w, rows), NEW t, NEW files
        PROVE  Allowed(Remember(w, t, files), t)
    <3>. DEFINE x == Remember(w, t, files)
    <3>1. Underway(x) = Underway(w) /\ Readable(x, t) = Readable(w, t)
      BY <2>2, RememberLemma DEF Underway, Readable
    <3>2. /\ x.pc = w.pc /\ x.body = w.body
          /\ x.readable = (w.readable \/ (Underway(w) /\ Readable(w, t)))
      BY RememberLemma
    <3>. HIDE DEF x
    <3>3. Allowed(x, t)
      BY <2>2, <3>1, <3>2 DEF Allowed
    <3>. QED
      BY <3>3 DEF x
  <2>3. \A v \in Readers : Allowed(views'[v], rows')
    BY <2>1, <2>2
  <2>. QED
    BY <1>0, <2>3 DEF AllowedInv
<1>2. ASSUME NEW v \in Readers, View(v) PROVE AllowedInv'
  <2>1. rows' = rows /\ \A y \in Readers : y # v => views'[y] = views[y]
    BY <1>0, <1>2, ViewLemma DEF hvars
  <2>. QED
    BY <1>0, <1>2, <2>1, AllowedLemma DEF AllowedInv
<1>3. CASE UNCHANGED rvars
  BY <1>0, <1>3 DEF rvars, AllowedInv
<1>. QED
  BY <1>1, <1>2, <1>3 DEF RNext

\* Bytes reach only a user who was allowed to read the file, through this
\* interface, at some moment of the request, although what is read of the row to
\* decide is old when the bytes are opened (serve.go:47-61, http.go:27).
THEOREM OnlyReadersAreServed == RSpec => []ServedOnlyToReaders
<1>1. RInit => AllowedInv
  BY ReadInit DEF RInit, AllowedInv, Allowed, Resting, Underway
<1>2. AllowedInv => ServedOnlyToReaders
  BY DEF AllowedInv, Allowed, ServedOnlyToReaders
<1>. QED
  BY <1>1, <1>2, AllowedNext, PTL DEF RSpec

----------------------------------------------------------------------------
(* What a range is.                                                         *)

\* The span of a download and a 416 are those of its Range header, for the size
\* that its headers give.
Ranged(w) ==
    /\ w.span # None \/ w.status = "unsatisfiable" =>
           w.ask \in Asks /\ w.ask.want # None /\ w.says \in Stored
    /\ w.span # None =>
           /\ w.span = ParseByteRange(w.ask.want, w.says.size)
           /\ w.span # Unsatisfiable
    /\ w.status = "unsatisfiable" => ParseByteRange(w.ask.want, w.says.size) = Unsatisfiable

RangedInv == ReadInv /\ \A v \in Readers : Ranged(views[v])

LEMMA RangedLemma ==
    ASSUME RangedInv, NEW v \in Readers, View(v)
    PROVE  Ranged(views'[v])
<1>. DEFINE w == views[v]
            x == views'[v]
<1>a. ReadInv /\ Begun(w) /\ Begun(x) /\ Ranged(w)
  BY TypedLemma DEF RangedInv, ReadInv
<1>1. CASE x.span = None /\ x.status # "unsatisfiable"
  BY <1>1 DEF Ranged
<1>2. CASE BeginView(v)
  <2>1. x.pc \in {"find", "own"}
    BY <1>2, <1>a, BeginLemma DEF ReadInv
  <2>. QED
    BY <2>1, <1>1, <1>a, AnswerAssumption DEF Begun, Answers
<1>3. CASE EndView(v)
  <2>1. x = Resting
    BY <1>3, <1>a DEF EndView, Shown, ReadInv, ViewsTypeOK
  <2>. QED
    BY <2>1, <1>1, AnswerAssumption DEF Resting, Answers
<1>4. CASE Find(v) \/ OwnView(v)
  BY <1>1, <1>4, <1>a, CourseLemma
<1>5. CASE Head(v)
  <2>1. w.id \in DOMAIN rows => rows[w.id].stored \in Stored
    BY <1>a DEF ReadInv, HistoryInv, OwnershipInv, TypeInv, TypeOK, Row
  <2>2. w.ask \in Asks
    BY <1>5, <1>a DEF Head, Begun
  <2>. HIDE DEF w, x
  <2>. QED
    BY <1>1, <1>5, <1>a, <2>1, <2>2, HeadLemma, AnswerAssumption DEF Ranged, w, x, Answers
<1>6. CASE Open(v)
  <2>1. x.span = w.span /\ x.says = w.says /\ x.ask = w.ask /\ x.status # "unsatisfiable"
    BY <1>6, <1>a, OpenLemma
  <2>. QED
    BY <2>1, <1>a DEF Ranged
<1>. QED
  BY <1>2, <1>3, <1>4, <1>5, <1>6 DEF View

LEMMA RangedNext == RangedInv /\ [RNext]_rvars => RangedInv'
<1>. SUFFICES ASSUME RangedInv, [RNext]_rvars PROVE RangedInv'
  OBVIOUS
<1>0. ReadInv /\ ReadInv' /\ ViewsTypeOK
  BY ReadNext DEF RangedInv, ReadInv
<1>1. CASE Written
  <2>1. \A v \in Readers : /\ views[v] \in Download /\ Ranged(views[v])
                          /\ views'[v] = Remember(views[v], rows', CalmFiles')
    BY <1>0, <1>1 DEF RangedInv, ViewsTypeOK, Written
  <2>. QED
    BY <1>0, <2>1, RememberLemma DEF RangedInv, Ranged
<1>2. ASSUME NEW v \in Readers, View(v) PROVE RangedInv'
  BY <1>0, <1>2, ViewLemma, RangedLemma DEF RangedInv
<1>3. CASE UNCHANGED rvars
  BY <1>0, <1>3 DEF rvars, RangedInv
<1>. QED
  BY <1>1, <1>2, <1>3 DEF RNext

LEMMA RangedInit == RInit => RangedInv
BY ReadInit, AnswerAssumption DEF RInit, RangedInv, Ranged, Resting, Answers

\* A 206 announces exactly the bytes its Range header names, of the size the row
\* gave, and a 416 is answered only when it names none (parseByteRange,
\* serve.go:196-239), whatever else is done to the file meanwhile.
THEOREM RangesAreRight == RSpec => []RangesAreNamed
<1>1. ASSUME NEW w, Ranged(w)
      PROVE  /\ w.span # None =>
                    /\ w.span.start .. w.span.end = Named(w.ask.want, w.says.size)
                    /\ Named(w.ask.want, w.says.size) # {}
             /\ w.status = "unsatisfiable" => Named(w.ask.want, w.says.size) = {}
  <2>1. CASE w.span # None \/ w.status = "unsatisfiable"
    <3>1. w.ask.want \in Header /\ w.says.size \in Nat
      BY <1>1, <2>1, AskAssumption, SizeAssumption DEF Ranged, Ask, Stored, Sizes
    <3>. QED
      BY <1>1, <3>1, RangeIsNamed DEF Ranged
  <2>. QED
    BY <2>1
<1>2. RangedInv => RangesAreNamed
  BY <1>1 DEF RangedInv, RangesAreNamed
<1>. QED
  BY <1>2, RangedInit, RangedNext, PTL DEF RSpec

----------------------------------------------------------------------------
(* What an undisturbed download delivers.                                   *)

LEMMA NoCrash == Durable
BY NoCrashAssumption DEF Durable

\* While a file is calm nobody changes its bytes.
LEMMA CalmLemma ==
    ASSUME BytesInv, BytesInv', HNext, NEW i \in CalmFiles, i \in CalmFiles'
    PROVE  i \in DOMAIN blobs /\ i \in DOMAIN blobs' /\ blobs'[i] = blobs[i]
<1>1. i \in DOMAIN rows /\ i \in DOMAIN rows' /\ i \in Ids
  BY DEF CalmFiles, BytesInv, OwnershipInv, TypeInv, TypeOK
<1>2. i \in DOMAIN blobs /\ i \in DOMAIN blobs'
  BY <1>1 DEF BytesInv, RowsHaveBytes
<1>3. Window(i)' = {} /\ ~Disturbed(i)
  BY <1>1 DEF CalmFiles, HNext, Remembered
<1>. QED
  BY <1>1, <1>2, <1>3 DEF Disturbed, Overwritten

Exact(w, files, bytes) ==
    w.calm =>
        /\ Underway(w) => w.id \in files
        /\ w.pc = "open" /\ w.says # None => w.says \in Reports(bytes[w.id])
        /\ w.pc = "done" =>
               /\ w.status \notin {"error", "panic"}
               /\ (w.body # None /\ w.says # None) => w.says \in Reports(w.body.content)
               /\ (w.body # None /\ w.span # None) =>
                      w.body.bytes = w.span.start .. w.span.end
               /\ (w.body # None /\ w.span = None) =>
                      w.body.bytes = 0..(Size[w.body.content] - 1)

ExactInv ==
    /\ RangedInv /\ BytesInv
    /\ \A v \in Readers : Exact(views[v], CalmFiles, blobs)

\* The bytes of a range of a file of the size it was made for.
LEMMA SliceLemma ==
    ASSUME NEW h \in Header, NEW c \in Contents, NEW stored \in Reports(c),
           ParseByteRange(h, stored.size) # Unsatisfiable
    PROVE  LET span == ParseByteRange(h, stored.size) IN
           span.start < Size[c] /\ Slice(c, span) = span.start .. span.end
<1>. DEFINE span == ParseByteRange(h, stored.size)
<1>1. stored \in Stored /\ stored.size = Size[c]
  BY ReportsLemma DEF Reports
<1>2. span.start \in Nat /\ span.end \in Nat /\ span.start < Size[c] /\ span.end < Size[c]
  BY <1>1, SpanLemma
<1>3. Size[c] \in Nat
  BY SizeAssumption DEF Sizes
<1>. HIDE DEF span
<1>4. Slice(c, span) = span.start .. span.end
  BY <1>2, <1>3 DEF Slice
<1>. QED
  BY <1>2, <1>4 DEF span

LEMMA ExactLemma ==
    ASSUME ExactInv, NEW v \in Readers, View(v)
    PROVE  Exact(views'[v], CalmFiles, blobs)
<1>. DEFINE w == views[v]
            x == views'[v]
            files == CalmFiles
<1>a. ReadInv /\ Begun(w) /\ Begun(x) /\ Ranged(w) /\ Exact(w, files, blobs)
  BY TypedLemma DEF ExactInv, RangedInv, ReadInv
<1>b. \A i \in files :
          /\ i \in DOMAIN rows /\ i \in DOMAIN blobs /\ blobs[i] \in Contents
          /\ rows[i].stored \in Reports(blobs[i])
  <2>1. RowDescribesBytes
    BY <1>a, HistoryDescribes DEF ReadInv
  <2>. QED
    BY <2>1 DEF CalmFiles, RowDescribesBytes, ExactInv, BytesInv, RowsHaveBytes, OwnershipInv,
                TypeInv, TypeOK
<1>. HIDE DEF files
<1>1. CASE BeginView(v)
  <2>1. x.pc \in {"find", "own"} /\ (x.calm => x.id \in files)
    BY <1>1, <1>a, BeginLemma DEF ReadInv, files
  <2>. HIDE DEF x
  <2>. QED
    BY <2>1 DEF Exact, x, files
<1>2. CASE EndView(v)
  <2>1. x = Resting
    BY <1>2, <1>a DEF EndView, Shown, ReadInv, ViewsTypeOK
  <2>. QED
    BY <2>1 DEF Resting, Exact
<1>3. CASE Find(v) \/ OwnView(v)
  <2>1. /\ Underway(w) /\ x.id = w.id /\ x.calm = w.calm /\ x.says = None /\ x.body = None
        /\ x.status \notin {"error", "panic"}
    BY <1>3, <1>a, CourseLemma
  <2>. HIDE DEF w, x
  <2>. QED
    BY <1>a, <2>1 DEF Exact, x, files
<1>4. CASE Head(v)
  <2>1. /\ Underway(w) /\ x.id = w.id /\ x.calm = w.calm /\ x.body = None
        /\ x.status \notin {"error", "panic"}
        /\ x.says # None => w.id \in DOMAIN rows /\ x.says = rows[w.id].stored
    BY <1>4, <1>a, HeadLemma, AnswerAssumption DEF Answers, Underway
  <2>. HIDE DEF w, x
  <2>. QED
    BY <1>a, <1>b, <2>1 DEF Exact, x, files
<1>5. CASE Open(v)
  <2>. DEFINE c == blobs[w.id]
  <2>1. /\ x.pc = "done" /\ x.calm = w.calm /\ x.id = w.id /\ x.says = w.says
        /\ x.span = w.span /\ w.pc = "open"
    BY <1>5, <1>a, OpenLemma
  <2>2. SUFFICES ASSUME w.calm
                 PROVE  /\ x.status \notin {"error", "panic"}
                        /\ x.body # None =>
                              /\ x.body.content = c
                              /\ w.span # None => x.body.bytes = w.span.start .. w.span.end
                              /\ w.span = None => x.body.bytes = 0..(Size[c] - 1)
    <3>1. w.calm /\ w.says # None => w.says \in Reports(c)
      BY <1>a, <2>1 DEF Exact
    <3>. HIDE DEF w, x, c
    <3>. QED
      BY <1>a, <2>1, <2>2, <3>1 DEF Exact, Underway, x
  <2>3. w.id \in files /\ w.id \in DOMAIN blobs /\ c \in Contents
    BY <1>a, <1>b, <2>1, <2>2 DEF Exact, Underway
  <2>4. w.span # None =>
            /\ w.span.start < Size[c] /\ w.span.start \in Nat /\ Size[c] \in Nat
            /\ Slice(c, w.span) = w.span.start .. w.span.end
    <3>1. SUFFICES ASSUME w.span # None
                   PROVE  /\ w.span.start < Size[c] /\ w.span.start \in Nat /\ Size[c] \in Nat
                          /\ Slice(c, w.span) = w.span.start .. w.span.end
      OBVIOUS
    <3>2. w.says \in Stored /\ w.says # None /\ w.ask.want \in Header
      BY <1>a, <3>1, NoneAssumption, AskAssumption DEF Ranged, Ask
    <3>3. w.says \in Reports(c)
      BY <1>a, <2>1, <2>2, <3>2 DEF Exact
    <3>4. /\ w.span = ParseByteRange(w.ask.want, w.says.size)
          /\ ParseByteRange(w.ask.want, w.says.size) # Unsatisfiable
      BY <1>a, <3>1 DEF Ranged
    <3>. HIDE DEF c, w
    <3>. QED
      BY <2>3, <3>2, <3>3, <3>4, SliceLemma, SpanLemma, SizeAssumption DEF Sizes
  <2>5. \/ x.body = None /\ x.status = "unavailable"
        \/ /\ w.span = None /\ x.status = "ok"
           /\ x.body = [content |-> c, bytes |-> 0..(Size[c] - 1)]
        \/ /\ w.span # None /\ x.status = "partial"
           /\ x.body = [content |-> c, bytes |-> Slice(c, w.span)]
    BY <1>5, <1>a, <2>3, <2>4, OpenLemma
  <2>. HIDE DEF w, x, c
  <2>. QED
    BY <2>4, <2>5
<1>. QED
  BY <1>1, <1>2, <1>3, <1>4, <1>5 DEF View, files

LEMMA ExactNext ==
    ASSUME Answered
    PROVE  ExactInv /\ [RNext]_rvars => ExactInv'
<1>. SUFFICES ASSUME ExactInv, [RNext]_rvars PROVE ExactInv'
  OBVIOUS
<1>0. /\ RangedInv /\ RangedInv' /\ ReadInv /\ ViewsTypeOK /\ BytesInv
      /\ \A v \in Readers : views[v] \in Download /\ Exact(views[v], CalmFiles, blobs)
  BY RangedNext DEF ExactInv, RangedInv, ReadInv, ViewsTypeOK
<1>1. CASE Written
  <2>1. BytesInv'
    BY <1>0, <1>1, NoCrash, BytesNext DEF Written, HNext
  <2>2. \A v \in Readers : views'[v] = Remember(views[v], rows', CalmFiles')
    BY <1>1 DEF Written
  <2>3. ASSUME NEW w \in Download, Exact(w, CalmFiles, blobs)
        PROVE  Exact(Remember(w, rows', CalmFiles'), CalmFiles', blobs')
    <3>. DEFINE x == Remember(w, rows', CalmFiles')
                files == CalmFiles'
    <3>1. /\ x.pc = w.pc /\ x.id = w.id /\ x.says = w.says /\ x.span = w.span
          /\ x.status = w.status /\ x.body = w.body
          /\ x.calm = (w.calm /\ (Underway(w) => w.id \in files))
      BY RememberLemma
    <3>2. ASSUME x.calm, x.pc = "open", x.says # None
          PROVE  x.says \in Reports(blobs'[x.id])
      <4>1. w.calm /\ w.id \in CalmFiles /\ w.id \in CalmFiles'
        BY <2>3, <3>1, <3>2 DEF Exact, Underway
      <4>2. blobs'[w.id] = blobs[w.id]
        BY <1>0, <1>1, <2>1, <4>1, CalmLemma DEF Written
      <4>. QED
        BY <2>3, <3>1, <3>2, <4>1, <4>2 DEF Exact
    <3>3. Exact(x, files, blobs')
      <4>. HIDE DEF x, files
      <4>. QED
        BY <2>3, <3>1, <3>2 DEF Exact, Underway
    <3>. QED
      BY <3>3
  <2>4. \A v \in Readers : Exact(views'[v], CalmFiles', blobs')
    BY <1>0, <2>2, <2>3
  <2>. QED
    BY <1>0, <2>1, <2>4 DEF ExactInv
<1>2. ASSUME NEW v \in Readers, View(v) PROVE ExactInv'
  <2>1. /\ UNCHANGED hvars
        /\ \A y \in Readers : y # v => views'[y] = views[y]
    BY <1>0, <1>2, ViewLemma
  <2>2. BytesInv'
    BY <1>0, <2>1, NoCrash, BytesNext DEF hvars, vars
  <2>3. CalmFiles' = CalmFiles /\ blobs' = blobs
    BY <2>1 DEF hvars, CalmFiles, Window
  <2>4. \A y \in Readers : Exact(views'[y], CalmFiles, blobs)
    BY <1>0, <1>2, <2>1, ExactLemma
  <2>. QED
    BY <1>0, <2>2, <2>3, <2>4 DEF ExactInv
<1>3. CASE UNCHANGED rvars
  <2>1. CalmFiles' = CalmFiles /\ blobs' = blobs /\ views' = views
    BY <1>3 DEF rvars, CalmFiles, Window
  <2>2. BytesInv'
    BY <1>0, <1>3, NoCrash, BytesNext DEF rvars, vars
  <2>. QED
    BY <1>0, <2>1, <2>2 DEF ExactInv
<1>. QED
  BY <1>1, <1>2, <1>3 DEF RNext

\* When nobody replaces or deletes the file during a download and its last
\* replacement was not disturbed, the download finds its bytes, and the size and
\* ETag of its headers and the range it announces are those of the very bytes it
\* delivers, read by three separate calls among any number of writers.
THEOREM CalmDownloadsAreRight ==
    ASSUME Answered
    PROVE  RSpec => []UndisturbedDownloadsAreExact
<1>1. RInit => ExactInv
  BY RangedInit, NoCrash, BytesInit DEF RInit, HInit, ExactInv, Exact, Resting
<1>2. ExactInv => UndisturbedDownloadsAreExact
  BY DEF ExactInv, Exact, UndisturbedDownloadsAreExact
<1>3. ExactInv /\ [RNext]_rvars => ExactInv'
  BY ExactNext
<1>. QED
  BY <1>1, <1>2, <1>3, PTL DEF RSpec
============================================================================
