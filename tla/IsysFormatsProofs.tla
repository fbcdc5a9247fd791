-------------------------- MODULE IsysFormatsProofs -------------------------
(***************************************************************************)
(* For any number of nodes, streams and formats: the source pads follow    *)
(* the sink pad, a frame fits the buffers it is captured into, streams are *)
(* counted and owned, and the firmware runs what was validated.            *)
(***************************************************************************)
EXTENDS IsysFormats, TLAPS

-----------------------------------------------------------------------------
(* The sub-device.                                                         *)

Rect == [top : Nat, w : Nat, h : Nat]

\* What SourceFollowsSink needs to be inductive: the types, and that no sink
\* format is empty, so that a crop that has been set is not mistaken for none.
SubInv ==
    /\ routes \in [Nodes -> Sinks \cup {NoRoute}]
    /\ sink \in [Sinks -> Formats] /\ \A s \in Sinks : sink[s].w > 0
    /\ src \in [Nodes -> Formats] /\ crop \in [Nodes -> Rect]
    /\ SourceFollowsSink

\* ipu6_isys_convert_bayer_order gives the code whose colours are those of the
\* image shifted up by the lines that are cropped.
LEMMA BayerShift ==
    ASSUME NEW c \in Codes, is_bayer_format(c), NEW top \in Nat
    PROVE  /\ convert_bayer_order(c, 0, top) \in Codes
           /\ convert_bayer_order(c, 0, top)[2] = c[2]
           /\ \A x, y \in 0..1 : Colour(convert_bayer_order(c, 0, top), x, y)
                                 = Colour(c, x, y + top)
<1> DEFINE b == top % 2
<1>1. c[1] \in 0..3 /\ b \in 0..1
  BY SMT DEF is_bayer_format
<1>2. convert_bayer_order(c, 0, top) = convert_bayer_order(c, 0, b)
  BY <1>1, SMT DEF convert_bayer_order
<1>3. convert_bayer_order(c, 0, top) \in Codes
  BY <1>1, <1>2, SubdevAssumption, Zenon
<1>4. convert_bayer_order(c, 0, top) = <<Xor2(c[1], 2 * b), c[2]>>
  BY <1>1, SMT DEF convert_bayer_order
<1>5. ASSUME NEW x \in 0..1, NEW y \in 0..1
      PROVE  Filter[1 + Xor2(c[1], 2 * b)][1 + (x % 2) + (2 * (y % 2))]
             = Filter[1 + c[1]][1 + (x % 2) + (2 * ((y + b) % 2))]
  <2>1. c[1] = 0 \/ c[1] = 1 \/ c[1] = 2 \/ c[1] = 3
    BY <1>1, SMT
  <2>2. (b = 0 \/ b = 1) /\ (x = 0 \/ x = 1) /\ (y = 0 \/ y = 1)
    BY <1>1, SMT
  <2> HIDE DEF b
  <2>3. Xor2(c[1], 2 * b) = IF b = 0 THEN c[1] ELSE
                            IF c[1] = 0 THEN 2 ELSE IF c[1] = 1 THEN 3 ELSE
                            IF c[1] = 2 THEN 0 ELSE 1
    BY <2>1, <2>2, SMT DEF Xor2
  <2>4. 1 + (x % 2) + (2 * (y % 2)) = 1 + x + 2 * y
    BY <2>2, SMT
  <2>5. 1 + (x % 2) + (2 * ((y + b) % 2)) = 1 + x + 2 * (IF y = b THEN 0 ELSE 1)
    <3>1. (y + b) % 2 = IF y = b THEN 0 ELSE 1
      <4>1. 0 % 2 = 0 /\ 1 % 2 = 1 /\ 2 % 2 = 0  BY SMT
      <4>2. CASE b = 0  BY <4>1, <4>2, <2>2, SMT
      <4>3. CASE b = 1  BY <4>1, <4>3, <2>2, SMT
      <4> QED  BY <4>2, <4>3, <2>2, Zenon
    <3>2. x % 2 = x  BY <2>2, SMT
    <3> QED  BY <3>1, <3>2, Zenon
  <2>6. Filter[1 + Xor2(c[1], 2 * b)][1 + x + 2 * y]
        = Filter[1 + c[1]][1 + x + 2 * (IF y = b THEN 0 ELSE 1)]
    <3>1. CASE c[1] = 0  BY <3>1, <2>2, <2>3, SMT DEF Filter
    <3>2. CASE c[1] = 1  BY <3>2, <2>2, <2>3, SMT DEF Filter
    <3>3. CASE c[1] = 2  BY <3>3, <2>2, <2>3, SMT DEF Filter
    <3>4. CASE c[1] = 3  BY <3>4, <2>2, <2>3, SMT DEF Filter
    <3> QED  BY <2>1, <3>1, <3>2, <3>3, <3>4, Zenon
  <2> QED  BY <2>4, <2>5, <2>6
<1>6. \A y \in 0..1 : (y + top) % 2 = (y + b) % 2
  BY SMT
<1>7. ASSUME NEW x \in 0..1, NEW y \in 0..1
      PROVE  Colour(convert_bayer_order(c, 0, top), x, y) = Colour(c, x, y + top)
  <2>1. convert_bayer_order(c, 0, top)[1] = Xor2(c[1], 2 * b)
    BY <1>4
  <2>2. (y + top) % 2 = (y + b) % 2
    BY <1>6, Zenon
  <2> HIDE DEF b
  <2> QED  BY <2>1, <2>2, <1>5 DEF Colour
<1> QED  BY <1>3, <1>4, <1>7

\* clamp stays between natural bounds.
LEMMA ClampNat ==
    ASSUME NEW v \in Int, NEW lo \in Nat, NEW hi \in Nat
    PROVE  clamp(v, lo, hi) \in Nat /\ (lo > 0 /\ hi > 0 => clamp(v, lo, hi) > 0)
BY SMT DEF clamp

\* A selection is a rectangle of the sink's width, on a line of its own parity
\* unless the format is not a Bayer one.
LEMMA SelRect ==
    ASSUME NEW f \in Formats, NEW top \in Nat, NEW h \in Nat
    PROVE  set_sel(f, top, h) \in Rect
           /\ set_sel(f, top, h).w = f.w
<1> DEFINE t == IF is_bayer_format(f.code) THEN top ELSE top - (top % 2)
<1>1. t \in Nat  BY SMT
<1>2. (f.h - t) % U32 \in Nat  BY <1>1, SubdevAssumption, SMT DEF Formats
<1>3. h - (h % 2) \in Int  BY SMT
<1>4. clamp(h - (h % 2), MinHeight, (f.h - t) % U32) \in Nat
  BY <1>2, <1>3, SubdevAssumption, ClampNat, Zenon
<1>5. set_sel(f, top, h) = [top |-> t, w |-> f.w,
                            h |-> clamp(h - (h % 2), MinHeight, (f.h - t) % U32)]
  BY Zenon DEF set_sel
<1>6. f.w \in Nat  BY Zenon DEF Formats
<1> HIDE DEF t
<1> QED  BY <1>1, <1>4, <1>5, <1>6 DEF Rect

\* A pad whose format was just set, or just routed, follows.
LEMMA FollowsWhole ==
    ASSUME NEW f \in Formats
    PROVE  /\ Follows(f, NoCrop, f)
           /\ f.w > 0 => \A c : FullCrop(c, f) \in Rect /\ Follows(f, FullCrop(c, f), f)
<1>1. \A y \in 0..1 : y + 0 = y  BY SMT
<1>2. Follows(f, NoCrop, f)
  BY <1>1, Zenon DEF Follows, NoCrop
<1>3. ASSUME f.w > 0, NEW c
      PROVE  FullCrop(c, f) \in Rect /\ Follows(f, FullCrop(c, f), f)
  <2> DEFINE d == [top |-> 0, w |-> f.w, h |-> f.h]
  <2>1. d # NoCrop /\ d.w = f.w /\ d.h = f.h /\ d.top = 0 /\ d \in Rect
    BY <1>3 DEF NoCrop, Rect, Formats
  <2> HIDE DEF d
  <2>2. Follows(f, d, f)
    BY <1>1, <2>1, Zenon DEF Follows
  <2> QED  BY <2>1, <2>2, Zenon DEF d, FullCrop
<1> QED  BY <1>2, <1>3, Zenon

\* So does one that was just cropped: a crop that shifts the lines by an odd number
\* changes the Bayer order too, and other formats keep their code.
LEMMA FollowsSel ==
    ASSUME NEW f \in Formats, f.w > 0, NEW top \in Nat, NEW h \in Nat, NEW old \in Formats,
           ~is_bayer_format(f.code) => old.code = f.code,
           NEW c, c = set_sel(f, top, h), NEW g,
           g = [w |-> c.w, h |-> c.h,
                code |-> IF is_bayer_format(f.code)
                         THEN convert_bayer_order(f.code, 0, c.top) ELSE old.code]
    PROVE  c \in Rect /\ g \in Formats /\ Follows(f, c, g)
<1>1. c \in Rect /\ c.w = f.w
  BY SelRect, Zenon
<1>2. c.top \in Nat /\ c.w \in Nat /\ c.h \in Nat /\ c # NoCrop
  BY <1>1 DEF Rect, NoCrop
<1>3. f.code \in Codes /\ old.code \in Codes
  BY Zenon DEF Formats
<1>4. is_bayer_format(f.code) =>
         /\ convert_bayer_order(f.code, 0, c.top) \in Codes
         /\ convert_bayer_order(f.code, 0, c.top)[2] = f.code[2]
         /\ \A x, y \in 0..1 : Colour(convert_bayer_order(f.code, 0, c.top), x, y)
                               = Colour(f.code, x, y + c.top)
  BY <1>2, <1>3, BayerShift, Zenon
<1>5. /\ g.w = f.w /\ g.h = c.h
      /\ g.code = IF is_bayer_format(f.code)
                  THEN convert_bayer_order(f.code, 0, c.top) ELSE f.code
  BY <1>1, Zenon
<1>6. g \in Formats
  BY <1>2, <1>3, <1>4, Zenon DEF Formats
<1> QED  BY <1>1, <1>2, <1>4, <1>5, <1>6, Zenon DEF Follows

\* ipu6_isys_subdev_init_cfg establishes the invariant, and
\* subdev_set_routing establishes it again.
LEMMA SubRouted ==
    ASSUME NEW r \in Routings
    PROVE  /\ Init /\ routes = r => SubInv
           /\ SetRouting(r) => SubInv'
<1>1. RouteFormat \in Formats /\ RouteFormat.w > 0 /\ Follows(RouteFormat, NoCrop, RouteFormat)
  BY SubdevAssumption, FollowsWhole, Zenon
<1>2. r \in [Nodes -> Sinks \cup {NoRoute}] /\ NoCrop \in Rect
  BY SubdevAssumption, Zenon DEF NoCrop, Rect
<1>3. ASSUME Init, routes = r PROVE SubInv
  <2>1. /\ sink = [s \in Sinks |-> RouteFormat] /\ src = [n \in Nodes |-> RouteFormat]
        /\ crop = [n \in Nodes |-> NoCrop]
    BY <1>3, Zenon DEF Init
  <2>2. \A n \in Nodes : routes[n] # NoRoute => routes[n] \in Sinks
    BY <1>2, <1>3, Zenon
  <2> QED  BY <1>1, <1>2, <1>3, <2>1, <2>2, Zenon DEF SubInv, SourceFollowsSink
<1>4. ASSUME SetRouting(r) PROVE SubInv'
  <2>1. /\ routes' = r /\ sink' = [s \in Sinks |-> RouteFormat]
        /\ src' = [n \in Nodes |-> RouteFormat] /\ crop' = [n \in Nodes |-> NoCrop]
    BY <1>4, Zenon DEF SetRouting, Routed
  <2>2. \A n \in Nodes : routes'[n] # NoRoute => routes'[n] \in Sinks
    BY <1>2, <2>1, Zenon
  <2> QED  BY <1>1, <1>2, <2>1, <2>2, Zenon DEF SubInv, SourceFollowsSink
<1> QED  BY <1>3, <1>4, Zenon

\* ipu6_isys_subdev_set_fmt preserves it: format and crop are set together.
LEMMA SetFmtKeeps ==
    ASSUME SubInv, NEW s \in Sinks, NEW want \in SubFormats[s], SetFmt(s, want)
    PROVE  SubInv'
<1>1. PICK f \in Formats : /\ f.w > 0 /\ routes' = routes
                           /\ sink' = [sink EXCEPT ![s] = f]
                           /\ src' = [n \in Nodes |-> IF routes[n] = s THEN f ELSE src[n]]
                           /\ crop' = [n \in Nodes |-> IF routes[n] = s THEN FullCrop(crop[n], f)
                                                                        ELSE crop[n]]
  <2> DEFINE g == [w |-> clamp(want.w, MinWidth, MaxWidth),
                   h |-> clamp(want.h, MinHeight, MaxHeight),
                   code |-> IF want.code \in Codes THEN want.code ELSE Code0]
  <2>1. /\ want.w \in Int /\ want.h \in Int /\ Code0 \in Codes
        /\ MinWidth \in Nat /\ MinWidth > 0 /\ MaxWidth \in Nat /\ MaxWidth > 0
        /\ MinHeight \in Nat /\ MaxHeight \in Nat
    BY SubdevAssumption, SMT
  <2>2. clamp(want.w, MinWidth, MaxWidth) \in Nat /\ clamp(want.w, MinWidth, MaxWidth) > 0
    BY <2>1, ClampNat, Zenon
  <2>3. clamp(want.h, MinHeight, MaxHeight) \in Nat
    BY <2>1, ClampNat, Zenon
  <2>4. g \in Formats /\ g.w > 0
    BY <2>1, <2>2, <2>3, Zenon DEF Formats
  <2> QED  BY <2>4, Zenon DEF SetFmt
<1>2. ASSUME NEW n \in Nodes, routes'[n] # NoRoute
      PROVE  Follows(sink'[routes'[n]], crop'[n], src'[n])
  <2>1. CASE routes[n] = s
    BY <1>1, <2>1, FollowsWhole, Zenon DEF SubInv
  <2>2. CASE routes[n] # s
    <3>1. src'[n] = src[n] /\ sink'[routes'[n]] = sink[routes[n]] /\ crop'[n] = crop[n]
      BY <1>1, <2>2 DEF SubInv
    <3> QED  BY <1>1, <1>2, <3>1, Zenon DEF SubInv, SourceFollowsSink
  <2> QED  BY <2>1, <2>2, Zenon
<1>3. sink' \in [Sinks -> Formats] /\ \A t \in Sinks : sink'[t].w > 0
  BY <1>1, Zenon DEF SubInv
<1>4. src' \in [Nodes -> Formats]
  BY <1>1, Zenon DEF SubInv
<1>5. crop' \in [Nodes -> Rect]
  BY <1>1, FollowsWhole, Zenon DEF SubInv
<1> QED  BY <1>1, <1>2, <1>3, <1>4, <1>5, Zenon DEF SubInv, SourceFollowsSink

\* ipu6_isys_csi2_set_sel preserves it.
LEMMA SetSelKeeps ==
    ASSUME SubInv, NEW n \in Nodes, NEW r \in Selections[n], SetSel(n, r[1], r[2])
    PROVE  SubInv'
<1>0. r[1] \in Nat /\ r[2] \in Nat
  BY SubdevAssumption, Zenon
<1>1. PICK f \in Formats : f = sink[routes[n]] /\ f.w > 0 /\ routes[n] \in Sinks
  BY Zenon DEF SetSel, SubInv
<1>2. src[n] \in Formats /\ (~is_bayer_format(f.code) => src[n].code = f.code)
  <2>1. Follows(f, crop[n], src[n]) /\ src[n] \in Formats
    BY <1>1, Zenon DEF SubInv, SourceFollowsSink, SetSel
  <2> QED  BY <2>1, Zenon DEF Follows
<1>3. PICK c \in Rect, g \in Formats : /\ Follows(f, c, g)
                                       /\ crop' = [crop EXCEPT ![n] = c]
                                       /\ src' = [src EXCEPT ![n] = g]
  <2> DEFINE c == set_sel(f, r[1], r[2])
             g == [w |-> c.w, h |-> c.h,
                   code |-> IF is_bayer_format(f.code)
                            THEN convert_bayer_order(f.code, 0, c.top) ELSE src[n].code]
  <2>1. crop' = [crop EXCEPT ![n] = c] /\ src' = [src EXCEPT ![n] = g]
    BY <1>1, Zenon DEF SetSel
  <2>2. /\ c = set_sel(f, r[1], r[2])
        /\ g = [w |-> c.w, h |-> c.h,
                code |-> IF is_bayer_format(f.code)
                         THEN convert_bayer_order(f.code, 0, c.top) ELSE src[n].code]
    BY Zenon
  <2> HIDE DEF c, g
  <2>3. c \in Rect /\ g \in Formats /\ Follows(f, c, g)
    BY <1>0, <1>1, <1>2, <2>2, FollowsSel
  <2> QED  BY <2>1, <2>3, Zenon
<1>4. routes' = routes /\ sink' = sink
  BY Zenon DEF SetSel
<1>5. ASSUME NEW m \in Nodes, routes'[m] # NoRoute
      PROVE  Follows(sink'[routes'[m]], crop'[m], src'[m])
  <2>1. CASE m = n
    BY <1>1, <1>3, <1>4, <2>1, Zenon DEF SubInv
  <2>2. CASE m # n
    <3>1. src'[m] = src[m] /\ crop'[m] = crop[m]
      BY <1>3, <2>2, Zenon DEF SubInv
    <3> QED  BY <1>4, <1>5, <3>1, Zenon DEF SubInv, SourceFollowsSink
  <2> QED  BY <2>1, <2>2, Zenon
<1>6. src' \in [Nodes -> Formats] /\ crop' \in [Nodes -> Rect]
  BY <1>3, Zenon DEF SubInv
<1> QED  BY <1>4, <1>5, <1>6, Zenon DEF SubInv, SourceFollowsSink

-----------------------------------------------------------------------------
(* Buffers and pins.                                                       *)

StreamType == [refs : Nat, vc : Nat, nrq : Nat, streaming : BOOLEAN, queues : SUBSET Nodes]
CallType == [vc : Nat, stream : Streams \cup {NoStream}, nrq : Nat]
Shape ==
    /\ type \in [Nodes -> Types]
    /\ DOMAIN fmt = Nodes /\ \A n \in Nodes : DOMAIN fmt[n] = Types
    /\ DOMAIN alloc = Nodes /\ DOMAIN queued = Nodes
    /\ pc \in [Nodes -> {"off", "routed", "piped", "on"}] /\ av \in [Nodes -> CallType]
    /\ streams \in [Streams -> StreamType] /\ isr \in Streams \cup {NoStream}
    /\ fw \subseteq Streams

\* A size is that of the format it was computed for.
Sized(f) == Written(f) = f.size

\* The inductive strengthening of PinFitsBuffer.  A node whose call has begun
\* has buffers, so its format stays unless it is set in spite of them; a queue
\* belongs to the one stream its node refers to; and a queue that joins a stream
\* that runs already makes it one with too many queues, which captures nothing.
Node(t, f, a, q, p, s, l) ==
    /\ q \subseteq a
    /\ p # "off" => a # {}
    /\ s \in Streams <=> p \in {"piped", "on"}
    /\ Sized(f["meta"])
    /\ ~l => Sized(f["video"]) /\ \A size \in q : f[t].size <= size
NodeOK(n) == Node(type[n], fmt[n], alloc[n], queued[n], pc[n], av[n].stream, n \in late)
StreamOK(i) ==
    /\ \A n \in Nodes : n \in streams[i].queues <=> pc[n] = "on" /\ av[n].stream = i
    /\ streams[i].streaming => /\ Cardinality(streams[i].queues) >= streams[i].nrq
                               /\ streams[i].queues # {}
    /\ Capturing(streams[i]) =>
          \A n \in streams[i].queues \ late :
             pins[n].bpl = Current(n).bpl /\ pins[n].h = Current(n).h
BufInv ==
    /\ Shape
    /\ \A n \in Nodes : NodeOK(n)
    /\ \A i \in Streams : StreamOK(i)

\* The invariant says what it is for.
LEMMA BufInvImplies == BufInv => PinFitsBuffer
<1> SUFFICES ASSUME BufInv, NEW i \in Streams, Capturing(streams[i]),
                    NEW n \in streams[i].queues \ late, NEW size \in queued[n]
             PROVE  Written(pins[n]) <= size
  BY Zenon DEF PinFitsBuffer
<1>1. n \in Nodes /\ n \notin late /\ type[n] \in Types
  BY Zenon DEF BufInv, Shape, StreamType
<1>2. pins[n].bpl = Current(n).bpl /\ pins[n].h = Current(n).h
  BY Zenon DEF BufInv, StreamOK
<1>3. Written(pins[n]) = Written(Current(n))
  BY <1>2, Zenon DEF Written
<1>4. Sized(Current(n)) /\ Current(n).size <= size
  BY <1>1, Zenon DEF BufInv, NodeOK, Node, Current, Types
<1> QED  BY <1>3, <1>4, Zenon DEF Sized

\* ipu6_isys_try_fmt_cap leaves room for what the hardware may write.
LEMMA TrySized == \A t \in Types : \A f : Sized(try_fmt_cap(t, f))
BY DEF Sized, Written, try_fmt_cap

\* ipu6_isys_video_init and isys_stream_init establish the invariant.
LEMMA BufInit == Init => BufInv
<1> SUFFICES ASSUME Init PROVE BufInv
  BY Zenon
<1>1. /\ type = [n \in Nodes |-> "video"]
      /\ fmt = [n \in Nodes |-> [t \in Types |-> try_fmt_cap(t, Initial[t])]]
      /\ alloc = [n \in Nodes |-> {}] /\ queued = [n \in Nodes |-> {}]
      /\ pc = [n \in Nodes |-> "off"] /\ av = [n \in Nodes |-> Off]
      /\ streams = [i \in Streams |-> [refs |-> 0, vc |-> 0, nrq |-> 0,
                                       streaming |-> FALSE, queues |-> {}]]
      /\ isr = NoStream /\ fw = {}
  BY Zenon DEF Init
<1>2. \A n \in Nodes : Sized(fmt[n]["meta"]) /\ Sized(fmt[n]["video"])
  BY <1>1, TrySized, Zenon DEF Types
<1>3. NoStream \notin Streams
  BY DEF NoStream, Streams
<1>4. Shape
  BY <1>1, Zenon DEF Shape, Off, Types, CallType, StreamType
<1>5. \A n \in Nodes : NodeOK(n)
  BY <1>1, <1>2, <1>3, Zenon DEF NodeOK, Node, Off
<1>6. \A i \in Streams : StreamOK(i)
  BY <1>1, Zenon DEF StreamOK, Capturing
<1> QED  BY <1>4, <1>5, <1>6, Zenon DEF BufInv

\* The kinds of steps.  Only one node changes:
Only(n) ==
    \A m \in Nodes \ {n} :
        /\ type'[m] = type[m] /\ fmt'[m] = fmt[m] /\ alloc'[m] = alloc[m]
        /\ queued'[m] = queued[m] /\ pc'[m] = pc[m] /\ av'[m] = av[m]
        /\ (m \in late') = (m \in late)
\* and what a node captures stays, except that its format may be set late.
Keeps(n) ==
    /\ pc'[n] = "on" <=> pc[n] = "on"
    /\ pc[n] = "on" => /\ av'[n].stream = av[n].stream
                       /\ n \in late' \/ (n \notin late /\ Current(n)' = Current(n))

\* What one node does leaves the invariant of the others alone,
LEMMA OnlyNode ==
    ASSUME NEW n \in Nodes, Only(n), NodeOK(n)', \A m \in Nodes : NodeOK(m)
    PROVE  \A m \in Nodes : NodeOK(m)'
<1>1. ASSUME NEW m \in Nodes, m # n PROVE NodeOK(m)'
  BY <1>1, Zenon DEF Only, NodeOK
<1> QED  BY <1>1, Zenon

\* and what they stream.
LEMMA OnlyKeeps ==
    ASSUME NEW n \in Nodes, Only(n), Keeps(n)
    PROVE  \A m \in Nodes : Keeps(m)
<1>1. ASSUME NEW m \in Nodes, m # n PROVE Keeps(m)
  BY <1>1, Zenon DEF Only, Keeps, Current
<1> QED  BY <1>1, Zenon

\* Streams and their nodes stay.
Steady ==
    /\ pins' = pins /\ fw' = fw
    /\ \A n \in Nodes : Keeps(n)
    /\ \A i \in Streams : /\ streams'[i].queues = streams[i].queues
                          /\ streams'[i].nrq = streams[i].nrq
                          /\ streams'[i].streaming = streams[i].streaming

\* So the invariant of the streams is kept.
LEMMA SteadyStreams ==
    ASSUME Shape, \A i \in Streams : StreamOK(i), Steady
    PROVE  \A i \in Streams : StreamOK(i)'
<1> SUFFICES ASSUME NEW i \in Streams PROVE StreamOK(i)'
  BY Zenon
<1>1. /\ StreamOK(i) /\ pins' = pins /\ streams[i].queues \subseteq Nodes
      /\ streams'[i].queues = streams[i].queues
      /\ streams'[i].nrq = streams[i].nrq
      /\ streams'[i].streaming = streams[i].streaming
  BY Zenon DEF Steady, Shape, StreamType
<1>2. \A n \in Nodes : pc'[n] = "on" /\ av'[n].stream = i <=> pc[n] = "on" /\ av[n].stream = i
  BY Zenon DEF Steady, Keeps
<1>3. \A n \in streams[i].queues \ late' : n \notin late /\ Current(n)' = Current(n)
  BY <1>1 DEF Steady, Keeps, StreamOK
<1>4. Capturing(streams'[i]) => Capturing(streams[i])
  BY <1>1, Zenon DEF Capturing
<1>5. Capturing(streams'[i]) =>
         \A n \in streams[i].queues \ late' :
            pins[n].bpl = Current(n)'.bpl /\ pins[n].h = Current(n)'.h
  <2>1. Capturing(streams[i]) =>
           \A n \in streams[i].queues \ late :
              pins[n].bpl = Current(n).bpl /\ pins[n].h = Current(n).h
    BY <1>1, Zenon DEF StreamOK
  <2> QED  BY <1>3, <1>4, <2>1, Zenon
<1> QED  BY <1>1, <1>2, <1>5, Zenon DEF StreamOK

\* One stream changes, and so may its nodes.
LEMMA OtherStreams ==
    ASSUME NEW i \in Streams, StreamOK(i)', Shape, \A j \in Streams : StreamOK(j),
           UNCHANGED <<type, fmt, late>>,
           \A j \in Streams \ {i} : streams'[j] = streams[j],
           \A n \in Nodes \ streams'[i].queues : n \notin streams[i].queues => pins'[n] = pins[n],
           \A n \in Nodes, j \in Streams \ {i} :
              pc'[n] = "on" /\ av'[n].stream = j <=> pc[n] = "on" /\ av[n].stream = j
    PROVE  \A j \in Streams : StreamOK(j)'
<1>1. ASSUME NEW j \in Streams \ {i} PROVE StreamOK(j)'
  <2>1. StreamOK(j) /\ streams'[j] = streams[j] /\ streams[j].queues \subseteq Nodes
    BY Zenon DEF Shape, StreamType
  <2>2. \A n \in Nodes : pc'[n] = "on" /\ av'[n].stream = j <=> pc[n] = "on" /\ av[n].stream = j
    BY Zenon
  <2>3. \A n \in streams[j].queues : n \notin streams'[i].queues /\ n \notin streams[i].queues
    BY <2>1, <2>2 DEF StreamOK
  <2>4. \A n \in streams[j].queues : pins'[n] = pins[n] /\ Current(n)' = Current(n)
    BY <2>1, <2>3, Zenon DEF Current
  <2>5. Capturing(streams[j]) =>
           \A n \in streams[j].queues \ late :
              pins[n].bpl = Current(n).bpl /\ pins[n].h = Current(n).h
    BY <2>1, Zenon DEF StreamOK
  <2>6. Capturing(streams'[j]) =>
           \A n \in streams'[j].queues \ late' :
              pins'[n].bpl = Current(n)'.bpl /\ pins'[n].h = Current(n)'.h
    BY <2>1, <2>4, <2>5
  <2> QED  BY <2>1, <2>2, <2>6, Zenon DEF StreamOK
<1> QED  BY <1>1, Zenon

\* S_FMT, S_FMT of metadata, REQBUFS, CREATE_BUFS, QBUF and a buffer that is
\* done: a node with buffers keeps its format and type, or is in late.
BufStep(n) ==
    /\ Shape' /\ Only(n) /\ Keeps(n) /\ NodeOK(n)'
    /\ UNCHANGED <<subVars, callVars, streams, isr, fwVars, moved>>

\* The two S_FMT handlers are such steps: vb2 refuses both while there are buffers,
\* and a video format that is set all the same puts the node in late.
LEMMA SetFormats ==
    ASSUME Shape, NEW n \in Nodes, NodeOK(n), NEW f, SFmtVideo(n, f) \/ SFmtMeta(n, f)
    PROVE  BufStep(n)
<1>0. queued[n] \subseteq alloc[n] /\ (pc[n] # "off" => alloc[n] # {})
  BY Zenon DEF NodeOK, Node
<1>1. CASE SFmtVideo(n, f)
  <2> DEFINE v == IF Busy(n) THEN f ELSE try_fmt_cap("video", f)
  <2>1. /\ fmt' = [fmt EXCEPT ![n]["video"] = v]
        /\ late' = IF Busy(n) THEN late \cup {n} ELSE late \ {n}
        /\ UNCHANGED <<subVars, type, alloc, queued, callVars, streams, isr, fwVars, moved>>
    BY <1>1, Zenon DEF SFmtVideo
  <2>2. n \in late' \/ Sized(v)
    BY <2>1, TrySized, Zenon DEF Types
  <2>3. n \in late' <=> alloc[n] # {}
    BY <2>1, Zenon DEF Busy
  <2> HIDE DEF v
  <2>4. /\ fmt'[n]["video"] = v /\ fmt'[n]["meta"] = fmt[n]["meta"]
        /\ DOMAIN fmt' = Nodes /\ \A m \in Nodes : DOMAIN fmt'[m] = Types
        /\ \A m \in Nodes \ {n} : fmt'[m] = fmt[m]
    BY <2>1, Zenon DEF Shape, Types
  <2>5. Shape'
    BY <2>1, <2>4, Zenon DEF Shape, callVars, fwVars
  <2>6. Only(n)
    BY <2>1, <2>4 DEF Only, callVars
  <2>7. Keeps(n)
    BY <1>0, <2>1, <2>3, Zenon DEF Keeps, callVars
  <2>8. NodeOK(n)'
    <3>1. n \notin late' => queued[n] = {}
      BY <1>0, <2>3, Zenon
    <3> QED  BY <2>1, <2>2, <2>4, <3>1, Zenon DEF NodeOK, Node, callVars
  <2> QED  BY <2>1, <2>5, <2>6, <2>7, <2>8, Zenon DEF BufStep
<1>2. CASE SFmtMeta(n, f)
  <2> DEFINE v == try_fmt_cap("meta", f)
  <2>1. /\ fmt' = [fmt EXCEPT ![n]["meta"] = v] /\ alloc[n] = {}
        /\ UNCHANGED <<subVars, type, alloc, queued, callVars, streams, isr, fwVars, late, moved>>
    BY <1>2, Zenon DEF SFmtMeta, FreeForMeta, Busy
  <2>2. Sized(v)
    BY TrySized, Zenon DEF Types
  <2> HIDE DEF v
  <2>4. /\ fmt'[n]["meta"] = v /\ fmt'[n]["video"] = fmt[n]["video"]
        /\ DOMAIN fmt' = Nodes /\ \A m \in Nodes : DOMAIN fmt'[m] = Types
        /\ \A m \in Nodes \ {n} : fmt'[m] = fmt[m]
    BY <2>1, Zenon DEF Shape, Types
  <2>5. Shape'
    BY <2>1, <2>4, Zenon DEF Shape, callVars, fwVars
  <2>6. Only(n)
    BY <2>1, <2>4, Zenon DEF Only, callVars
  <2>7. Keeps(n)
    BY <1>0, <2>1, Zenon DEF Keeps, callVars
  <2>8. NodeOK(n)'
    <3>1. queued[n] = {}
      BY <1>0, <2>1, Zenon
    <3> QED  BY <2>1, <2>2, <2>4, <3>1, Zenon DEF NodeOK, Node, callVars
  <2> QED  BY <2>1, <2>5, <2>6, <2>7, <2>8, Zenon DEF BufStep
<1> QED  BY <1>1, <1>2, Zenon

\* So are REQBUFS, CREATE_BUFS and freeing the buffers,
LEMMA SetBuffers ==
    ASSUME Shape, NEW n \in Nodes, NodeOK(n), NEW t \in Types, NEW size,
           ReqBufs(n, t) \/ FreeBufs(n) \/ CreateBufs(n, t, size)
    PROVE  BufStep(n)
<1>0. PICK y, a, q :
         /\ y \in Types
         /\ type' = [type EXCEPT ![n] = y] /\ alloc' = [alloc EXCEPT ![n] = a]
         /\ queued' = [queued EXCEPT ![n] = q] \/ (queued' = queued /\ q = queued[n])
         /\ UNCHANGED <<subVars, fmt, callVars, streams, isr, fwVars, late, moved>>
         /\ q \subseteq a /\ q \subseteq queued[n]
         /\ \/ pc[n] = "off" /\ q = {}
            \/ y = type[n] /\ a # {}
  <2>1. type = [type EXCEPT ![n] = type[n]] /\ type[n] \in Types
    BY Zenon DEF Shape
  <2>2. queued[n] \subseteq alloc[n] /\ (pc[n] # "off" => alloc[n] # {})
    BY Zenon DEF NodeOK, Node
  <2>3. CASE ReqBufs(n, t)
    <3>1. /\ type' = [type EXCEPT ![n] = t] /\ alloc' = [alloc EXCEPT ![n] = {fmt[n][t].size}]
          /\ queued' = [queued EXCEPT ![n] = {}] /\ pc[n] = "off"
          /\ UNCHANGED <<subVars, fmt, callVars, streams, isr, fwVars, late, moved>>
      BY <2>3, Zenon DEF ReqBufs
    <3> QED  BY <3>1, Zenon
  <2>4. CASE FreeBufs(n)
    BY <2>1, <2>4, Zenon DEF FreeBufs
  <2>5. CASE CreateBufs(n, t, size)
    <3>1. /\ type' = [type EXCEPT ![n] = t] /\ alloc' = [alloc EXCEPT ![n] = alloc[n] \cup {size}]
          /\ queued' = queued
          /\ UNCHANGED <<subVars, fmt, callVars, streams, isr, fwVars, late, moved>>
          /\ t = type[n] \/ alloc[n] = {}
      BY <2>5, Zenon DEF CreateBufs, Busy, Shape
    <3>2. queued[n] \subseteq alloc[n] \cup {size} /\ alloc[n] \cup {size} # {}
          /\ (t = type[n] \/ (pc[n] = "off" /\ queued[n] = {}))
      BY <2>2, <3>1, Zenon
    <3> QED  BY <3>1, <3>2, Zenon
  <2> QED  BY <2>3, <2>4, <2>5, Zenon
<1>1. /\ type'[n] = y /\ alloc'[n] = a /\ queued'[n] = q
      /\ type' \in [Nodes -> Types] /\ DOMAIN alloc' = Nodes /\ DOMAIN queued' = Nodes
      /\ \A m \in Nodes \ {n} : /\ type'[m] = type[m] /\ alloc'[m] = alloc[m]
                                /\ queued'[m] = queued[m]
  BY <1>0, Zenon DEF Shape
<1>2. Shape'
  BY <1>0, <1>1, Zenon DEF Shape, callVars, fwVars
<1>3. Only(n)
  BY <1>0, <1>1, Zenon DEF Only, callVars
<1>4. Keeps(n)
  BY <1>0, <1>1, Zenon DEF Keeps, callVars, Current
<1>5. NodeOK(n)'
  BY <1>0, <1>1, Zenon DEF NodeOK, Node, callVars
<1> QED  BY <1>0, <1>2, <1>3, <1>4, <1>5, Zenon DEF BufStep

\* and QBUF, which compares the size with the format, and a completion.
LEMMA MoveBuffers ==
    ASSUME Shape, NEW n \in Nodes, NodeOK(n), NEW size, QBuf(n, size) \/ Done(n, size)
    PROVE  BufStep(n)
<1>0. PICK q :
         /\ queued' = [queued EXCEPT ![n] = q] /\ q \subseteq alloc[n]
         /\ UNCHANGED <<subVars, nodeVars, callVars, streams, isr, fwVars, late, moved>>
         /\ \A s \in q : s \in queued[n] \/ Current(n).size <= s
  <2>2. queued[n] \subseteq alloc[n]
    BY Zenon DEF NodeOK, Node
  <2>3. CASE QBuf(n, size)
    <3>1. queued[n] \cup {size} \subseteq alloc[n] /\ Current(n).size <= size
      BY <2>2, <2>3, Zenon DEF QBuf, Fits
    <3> QED  BY <2>3, <3>1, Zenon DEF QBuf, Queued
  <2>4. CASE Done(n, size)
    BY <2>2, <2>4, Zenon DEF Done
  <2> QED  BY <2>3, <2>4, Zenon
<1>1. /\ queued'[n] = q /\ DOMAIN queued' = Nodes
      /\ \A m \in Nodes \ {n} : queued'[m] = queued[m]
  BY <1>0, Zenon DEF Shape
<1>2. Shape'
  BY <1>0, <1>1, Zenon DEF Shape, callVars, fwVars, nodeVars
<1>3. Only(n)
  BY <1>0, <1>1, Zenon DEF Only, callVars, nodeVars
<1>4. Keeps(n)
  BY <1>0, Zenon DEF Keeps, callVars, Current, nodeVars
<1>5. NodeOK(n)'
  BY <1>0, <1>1, Zenon DEF NodeOK, Node, callVars, nodeVars, Current
<1> QED  BY <1>0, <1>2, <1>3, <1>4, <1>5, Zenon DEF BufStep

\* What the cardinality of a set of nodes has to satisfy.
Counting ==
    \A S \in SUBSET Nodes :
       /\ Cardinality(S) \in Nat /\ (Cardinality(S) = 0 <=> S = {})
       /\ \A n \in Nodes : /\ n \notin S => Cardinality(S \cup {n}) = Cardinality(S) + 1
                           /\ n \in S => Cardinality(S \ {n}) = Cardinality(S) - 1
       /\ \A T \in SUBSET S : Cardinality(T) <= Cardinality(S)

\* The number of queues a stream waits for.
RouteCount == Cardinality({n \in Nodes : routes[n] # NoRoute})

\* setup_video up to the unlock, and back.
CallStep(n) ==
    /\ Shape' /\ Only(n) /\ Keeps(n) /\ NodeOK(n)'
    /\ UNCHANGED <<subVars, streams, isr, fwVars, moved>>
    /\ av[n].stream = NoStream /\ av'[n].stream = NoStream
    /\ pc'[n] # "off" => routes[n] # NoRoute /\ av'[n].nrq = RouteCount

\* The first half of setup_video and a refused pipeline start are such steps.
LEMMA Calls ==
    ASSUME SubInv, Counting, Shape, NEW n \in Nodes, NodeOK(n), SetupVideo(n) \/ PipelineRefused(n)
    PROVE  CallStep(n)
<1>1. PICK c \in CallType, p \in {"off", "routed"} :
         /\ av' = [av EXCEPT ![n] = c] /\ pc' = [pc EXCEPT ![n] = p] /\ c.stream = NoStream
         /\ p = "off" \/ (routes[n] # NoRoute /\ c.nrq = RouteCount /\ queued[n] # {})
         /\ pc[n] \in {"off", "routed"}
         /\ UNCHANGED <<subVars, nodeVars, queued, streams, isr, fwVars, late, moved>>
  <2>1. CASE SetupVideo(n)
    <3>1. RouteCount \in Nat
      <4>1. {m \in Nodes : routes[m] # NoRoute} \in SUBSET Nodes
        BY Zenon
      <4> QED  BY <4>1, Zenon DEF Counting, RouteCount
    <3>2. VcOf[routes[n]] \in Nat
      BY <2>1, SubdevAssumption, Zenon DEF SetupVideo, SubInv
    <3> DEFINE c == [vc |-> VcOf[routes[n]], stream |-> NoStream, nrq |-> RouteCount]
    <3>3. c \in CallType /\ c.stream = NoStream /\ c.nrq = RouteCount
      BY <3>1, <3>2, Zenon DEF CallType
    <3>4. /\ av' = [av EXCEPT ![n] = c] /\ pc' = [pc EXCEPT ![n] = "routed"]
          /\ routes[n] # NoRoute /\ queued[n] # {} /\ pc[n] = "off"
          /\ UNCHANGED <<subVars, nodeVars, queued, streams, isr, fwVars, late, moved>>
      BY <2>1, Zenon DEF SetupVideo, RouteCount
    <3> HIDE DEF c
    <3> QED  BY <3>3, <3>4, Zenon
  <2>2. CASE PipelineRefused(n)
    <3>1. Off \in CallType /\ Off.stream = NoStream
      BY Zenon DEF Off, CallType
    <3> QED  BY <2>2, <3>1, Zenon DEF PipelineRefused
  <2> QED  BY <2>1, <2>2, Zenon
<1>2. /\ av'[n] = c /\ pc'[n] = p /\ (\A m \in Nodes \ {n} : av'[m] = av[m] /\ pc'[m] = pc[m])
      /\ av' \in [Nodes -> CallType] /\ pc' \in [Nodes -> {"off", "routed", "piped", "on"}]
  BY <1>1, Zenon DEF Shape
<1>3. Shape'
  BY <1>1, <1>2, Zenon DEF Shape, nodeVars, fwVars
<1>4. Only(n)
  BY <1>1, <1>2, Zenon DEF Only, nodeVars
<1>5. Keeps(n)
  BY <1>1, <1>2, Zenon DEF Keeps
<1>6. NodeOK(n)' /\ av[n].stream = NoStream
  <2>1. av[n].stream \in Streams \cup {NoStream} /\ NoStream \notin Streams
    BY DEF Shape, CallType, NoStream, Streams
  <2>2. NodeOK(n)'
    BY <1>1, <1>2, <2>1, Zenon DEF NodeOK, Node, nodeVars
  <2> QED  BY <1>1, <2>1, <2>2, Zenon DEF NodeOK, Node
<1> QED  BY <1>1, <1>2, <1>3, <1>4, <1>5, <1>6, Zenon DEF CallStep

\* A node gets its stream.
GetStep(n, s) ==
    /\ Shape' /\ Only(n) /\ Keeps(n) /\ NodeOK(n)'
    /\ UNCHANGED <<subVars, isr, fwVars, moved>>
    /\ pc[n] = "routed" /\ av'[n] = [av[n] EXCEPT !.stream = s]
    /\ s \in Streams /\ (\A j \in Streams \ {s} : streams'[j] = streams[j])
    /\ streams'[s] = [streams[s] EXCEPT !.refs = @ + 1, !.vc = av[n].vc]

\* A pipeline that starts takes a reference to the stream of its channel.
LEMMA Gets ==
    ASSUME Shape, NEW n \in Nodes, NodeOK(n), PipelineStarted(n)
    PROVE  \E s \in StreamFor(av[n].vc) : GetStep(n, s)
<1>1. PICK s \in StreamFor(av[n].vc) : av' = [av EXCEPT ![n].stream = s] /\ GetStream(s, av[n].vc)
  BY Zenon DEF PipelineStarted
<1>2. /\ s \in Streams /\ pc[n] = "routed" /\ pc' = [pc EXCEPT ![n] = "piped"]
      /\ UNCHANGED <<subVars, nodeVars, queued, isr, fwVars, late, moved>>
  BY Zenon DEF StreamFor, First, Matching, Unused, PipelineStarted
<1> DEFINE st == [streams[s] EXCEPT !.refs = @ + 1, !.vc = av[n].vc]
           c == [av[n] EXCEPT !.stream = s]
<1>3. c \in CallType /\ c.stream = s
  BY <1>2 DEF Shape, CallType
<1>4. st \in StreamType
  <2>1. streams[s] \in StreamType /\ av[n] \in CallType
    BY <1>2, Zenon DEF Shape
  <2>2. streams[s].refs + 1 \in Nat /\ av[n].vc \in Nat
    BY <2>1 DEF StreamType, CallType
  <2> QED  BY <2>1, <2>2, Zenon DEF StreamType
<1>5. streams' = [streams EXCEPT ![s] = st] /\ av' = [av EXCEPT ![n] = c]
  BY <1>1, <1>2, Zenon DEF Shape, GetStream
<1> HIDE DEF c, st
<1>6. /\ streams' \in [Streams -> StreamType] /\ streams'[s] = st
      /\ \A j \in Streams \ {s} : streams'[j] = streams[j]
  BY <1>2, <1>4, <1>5, Zenon DEF Shape
<1>7. /\ av'[n] = c /\ pc'[n] = "piped"
      /\ \A m \in Nodes \ {n} : av'[m] = av[m] /\ pc'[m] = pc[m]
      /\ av' \in [Nodes -> CallType] /\ pc' \in [Nodes -> {"off", "routed", "piped", "on"}]
  BY <1>2, <1>3, <1>5, Zenon DEF Shape
<1>8. Shape'
  BY <1>2, <1>6, <1>7, Zenon DEF Shape, nodeVars, fwVars
<1>9. Only(n)
  BY <1>2, <1>7, Zenon DEF Only, nodeVars
<1>10. Keeps(n)
  BY <1>2, <1>7, Zenon DEF Keeps
<1>11. NodeOK(n)'
  BY <1>2, <1>3, <1>7, Zenon DEF NodeOK, Node, nodeVars
<1> QED  BY <1>2, <1>6, <1>7, <1>8, <1>9, <1>10, <1>11, Zenon DEF GetStep, c, st

\* ipu6_isys_put_stream counts down, and that is all.
LEMMA PutStream ==
    ASSUME Shape, NEW i \in Streams
    PROVE  /\ Put(i) \in StreamType /\ Put(i).vc = streams[i].vc /\ Put(i).nrq = streams[i].nrq
           /\ Put(i).streaming = streams[i].streaming /\ Put(i).queues = streams[i].queues
           /\ Put(i).refs = IF streams[i].refs > 0 THEN streams[i].refs - 1 ELSE streams[i].refs
<1> DEFINE r == IF streams[i].refs > 0 THEN streams[i].refs - 1 ELSE streams[i].refs
<1>1. streams[i] \in StreamType
  BY Zenon DEF Shape
<1>2. r \in Nat
  BY <1>1 DEF StreamType
<1>3. Put(i) = [streams[i] EXCEPT !.refs = r]
  BY Zenon DEF Put
<1> HIDE DEF r
<1>4. /\ [streams[i] EXCEPT !.refs = r] \in StreamType
      /\ [streams[i] EXCEPT !.refs = r].vc = streams[i].vc
      /\ [streams[i] EXCEPT !.refs = r].nrq = streams[i].nrq
      /\ [streams[i] EXCEPT !.refs = r].streaming = streams[i].streaming
      /\ [streams[i] EXCEPT !.refs = r].queues = streams[i].queues
      /\ [streams[i] EXCEPT !.refs = r].refs = r
  BY <1>1, <1>2, Zenon DEF StreamType
<1> QED  BY <1>3, <1>4, Zenon DEF r

\* A node puts its stream.
PutStep(n, i, st) ==
    /\ Shape' /\ Only(n) /\ NodeOK(n)'
    /\ UNCHANGED <<subVars, nodeVars, isr, late, moved>>
    /\ pc[n] \in {"piped", "on"} /\ pc'[n] = "off" /\ av'[n].stream = NoStream
    /\ i = av[n].stream /\ i \in Streams /\ streams'[i] = st
    /\ \A j \in Streams \ {i} : streams'[j] = streams[j]

\* A call that gives its stream back leaves the node off.
LEMMA Puts ==
    ASSUME Shape, NEW n \in Nodes, NodeOK(n), NEW i, i = av[n].stream, NEW st \in StreamType,
           pc[n] \in {"piped", "on"}, pc' = [pc EXCEPT ![n] = "off"],
           av' = [av EXCEPT ![n] = Off], queued' = [queued EXCEPT ![n] = {}] \/ queued' = queued,
           streams' = [streams EXCEPT ![i] = st], fw' \subseteq Streams,
           UNCHANGED <<subVars, nodeVars, isr, late, moved>>
    PROVE  PutStep(n, i, st)
<1>1. i \in Streams
  BY Zenon DEF NodeOK, Node
<1>2. /\ Off \in CallType /\ Off.stream = NoStream /\ NoStream \notin Streams
  BY DEF CallType, Off, NoStream, Streams
<1>3. /\ streams' \in [Streams -> StreamType] /\ streams'[i] = st
      /\ \A j \in Streams \ {i} : streams'[j] = streams[j]
  BY <1>1, Zenon DEF Shape
<1>4. /\ av'[n] = Off /\ pc'[n] = "off"
      /\ \A m \in Nodes \ {n} : av'[m] = av[m] /\ pc'[m] = pc[m]
      /\ av' \in [Nodes -> CallType] /\ pc' \in [Nodes -> {"off", "routed", "piped", "on"}]
  BY <1>2, Zenon DEF Shape
<1>5. /\ queued'[n] \subseteq queued[n] /\ DOMAIN queued' = Nodes
      /\ \A m \in Nodes \ {n} : queued'[m] = queued[m]
  BY Zenon DEF Shape
<1>6. Shape'
  BY <1>3, <1>4, <1>5, Zenon DEF Shape, nodeVars
<1>7. Only(n)
  BY <1>4, <1>5, Zenon DEF Only, nodeVars
<1>8. NodeOK(n)'
  BY <1>2, <1>4, <1>5, Zenon DEF NodeOK, Node, nodeVars
<1> QED  BY <1>1, <1>2, <1>3, <1>4, <1>6, <1>7, <1>8, Zenon DEF PutStep

\* The start fails; STREAMOFF.
LEMMA Fails ==
    ASSUME Shape, NEW n \in Nodes, NodeOK(n), StreamOnFails(n)
    PROVE  PutStep(n, av[n].stream, Put(av[n].stream)) /\ pc[n] = "piped" /\ UNCHANGED fwVars
<1>1. /\ pc[n] = "piped" /\ pc' = [pc EXCEPT ![n] = "off"] /\ av' = [av EXCEPT ![n] = Off]
      /\ queued' = queued /\ UNCHANGED <<subVars, nodeVars, isr, late, moved>>
      /\ streams' = [streams EXCEPT ![av[n].stream] = Put(av[n].stream)] /\ UNCHANGED fwVars
  BY Zenon DEF StreamOnFails
<1>2. av[n].stream \in Streams
  BY <1>1, Zenon DEF NodeOK, Node
<1>3. Put(av[n].stream) \in StreamType
  BY <1>2, PutStream, Zenon
<1>4. fw' \subseteq Streams
  <2>1. fw' = fw
    BY <1>1, Zenon DEF fwVars
  <2> QED  BY <2>1, Zenon DEF Shape
<1> QED  BY <1>1, <1>3, <1>4, Puts, Zenon

Left(n, i) == [Put(i) EXCEPT !.queues = @ \ {n}, !.streaming = FALSE]

\* stop_streaming gives the stream back, after it has stopped it if it was the
\* first queue to go.
LEMMA Stopped ==
    ASSUME Shape, NEW n \in Nodes, NodeOK(n), StreamOff(n), NEW i, i = av[n].stream
    PROVE  /\ PutStep(n, i, Left(n, i)) /\ pc[n] = "on"
           /\ Left(n, i).vc = streams[i].vc /\ Left(n, i).nrq = streams[i].nrq
           /\ Left(n, i).refs = Put(i).refs
           /\ Left(n, i).queues = streams[i].queues \ {n} /\ ~Left(n, i).streaming
           /\ \/ UNCHANGED fwVars /\ ~Stops(n, streams[i])
              \/ /\ fw' = fw \ {i} /\ \A m \in Nodes \ streams[i].queues : pins'[m] = pins[m]
<1>1. /\ pc[n] = "on" /\ pc' = [pc EXCEPT ![n] = "off"] /\ av' = [av EXCEPT ![n] = Off]
      /\ queued' = [queued EXCEPT ![n] = {}] /\ UNCHANGED <<subVars, nodeVars, isr, late, moved>>
      /\ streams' = [streams EXCEPT ![i] = Left(n, i)]
  BY Zenon DEF StreamOff, Left
<1>2. i \in Streams
  BY <1>1, Zenon DEF NodeOK, Node
<1>3. /\ Left(n, i) \in StreamType
      /\ Left(n, i).vc = streams[i].vc /\ Left(n, i).nrq = streams[i].nrq
      /\ Left(n, i).refs = Put(i).refs
      /\ Left(n, i).queues = streams[i].queues \ {n} /\ ~Left(n, i).streaming
  BY <1>2, PutStream, ZenonT(30) DEF Left, StreamType
<1>4. \/ UNCHANGED fwVars /\ ~Stops(n, streams[i])
      \/ /\ fw' = fw \ {i} /\ \A m \in Nodes \ streams[i].queues : pins'[m] = pins[m]
  BY Zenon DEF StreamOff
<1>5. fw' \subseteq Streams
  BY <1>4, Zenon DEF Shape, fwVars
<1>6. PutStep(n, i, Left(n, i))
  BY <1>1, <1>3, <1>5, Puts, Zenon
<1> QED  BY <1>1, <1>3, <1>4, <1>6, Zenon

\* A node that is or comes on, in stream i, which becomes st.
OnStep(n, i, st) ==
    /\ Shape' /\ Only(n) /\ NodeOK(n)'
    /\ UNCHANGED <<subVars, nodeVars, av, isr, late, moved>>
    /\ pc[n] \in {"piped", "on"} /\ pc'[n] = "on"
    /\ i = av[n].stream /\ i \in Streams /\ streams'[i] = st
    /\ \A j \in Streams \ {i} : streams'[j] = streams[j]
    /\ st \in StreamType /\ st.refs = streams[i].refs /\ st.vc = streams[i].vc
    /\ st.queues = streams[i].queues \cup {n}
    /\ st.nrq = IF streams[i].queues = {} THEN av[n].nrq ELSE streams[i].nrq
    /\ pc[n] = "piped" => Agrees(n)

\* A call that adds its node to the queues leaves the node on.
LEMMA Ons ==
    ASSUME Shape, NEW n \in Nodes, NodeOK(n), NEW i, i = av[n].stream, NEW st \in StreamType,
           pc[n] \in {"piped", "on"}, pc' = [pc EXCEPT ![n] = "on"] \/ (pc' = pc /\ pc[n] = "on"),
           pc[n] = "piped" => Agrees(n),
           NEW q, queued' = [queued EXCEPT ![n] = q] \/ (queued' = queued /\ q = queued[n]),
           q \subseteq alloc[n], \A s \in q : s \in queued[n] \/ Current(n).size <= s,
           streams' = [streams EXCEPT ![i] = st], fw' \subseteq Streams,
           UNCHANGED <<subVars, nodeVars, av, isr, late, moved>>,
           st.refs = streams[i].refs, st.vc = streams[i].vc,
           st.queues = streams[i].queues \cup {n},
           st.nrq = IF streams[i].queues = {} THEN av[n].nrq ELSE streams[i].nrq
    PROVE  OnStep(n, i, st)
<1>1. i \in Streams /\ alloc[n] # {}
  BY Zenon DEF NodeOK, Node
<1>2. /\ streams' \in [Streams -> StreamType] /\ streams'[i] = st
      /\ \A j \in Streams \ {i} : streams'[j] = streams[j]
  BY <1>1, Zenon DEF Shape
<1>3. /\ pc'[n] = "on" /\ \A m \in Nodes \ {n} : pc'[m] = pc[m]
      /\ pc' \in [Nodes -> {"off", "routed", "piped", "on"}]
  BY Zenon DEF Shape
<1>4. /\ queued'[n] = q /\ DOMAIN queued' = Nodes
      /\ \A m \in Nodes \ {n} : queued'[m] = queued[m]
  BY Zenon DEF Shape
<1>5. Shape'
  BY <1>2, <1>3, <1>4, Zenon DEF Shape, nodeVars
<1>6. Only(n)
  BY <1>3, <1>4, Zenon DEF Only, nodeVars
<1>7. NodeOK(n)'
  BY <1>1, <1>3, <1>4, Zenon DEF NodeOK, Node, nodeVars, Current
<1> QED  BY <1>1, <1>2, <1>3, <1>5, <1>6, <1>7, Zenon DEF OnStep

\* It waits for the other queues, or comes too late to a stream that runs;
Waits(n, i, st) ==
    OnStep(n, i, st) /\ pc[n] = "piped" /\ UNCHANGED fwVars /\ st.streaming = streams[i].streaming
\* or the stream starts, with pins of the formats its queues have now.
Starts(n, i, st) ==
    /\ OnStep(n, i, st) /\ st.streaming /\ Cardinality(st.queues) = st.nrq
    /\ fw' = fw \cup {i} /\ Configured(st.queues)

\* start_streaming waits for the other queues, or starts the stream.
LEMMA Joins ==
    ASSUME Shape, NEW n \in Nodes, NodeOK(n), NEW i, i = av[n].stream
    PROVE  /\ StreamOnWaits(n) => Waits(n, i, Joined(n))
           /\ StreamOnStarts(n) => Starts(n, i, [Joined(n) EXCEPT !.streaming = TRUE])
<1> SUFFICES ASSUME pc[n] = "piped" PROVE
           /\ StreamOnWaits(n) => Waits(n, i, Joined(n))
           /\ StreamOnStarts(n) => Starts(n, i, [Joined(n) EXCEPT !.streaming = TRUE])
  BY Zenon DEF StreamOnWaits, StreamOnStarts
<1> DEFINE nrq == IF streams[i].queues = {} THEN av[n].nrq ELSE streams[i].nrq
           su == [Joined(n) EXCEPT !.streaming = TRUE]
<1>1. i \in Streams /\ queued[n] \subseteq alloc[n]
  BY Zenon DEF NodeOK, Node
<1>2. streams[i] \in StreamType /\ av[n] \in CallType
  BY <1>1, Zenon DEF Shape
<1>3. nrq \in Nat /\ streams[i].queues \cup {n} \in SUBSET Nodes
  BY <1>2, Zenon DEF StreamType, CallType
<1>4. Joined(n) = [streams[i] EXCEPT !.nrq = nrq, !.queues = @ \cup {n}]
  BY Zenon DEF Joined
<1> HIDE DEF nrq
<1>5. /\ Joined(n) \in StreamType /\ Joined(n).refs = streams[i].refs
      /\ Joined(n).vc = streams[i].vc /\ Joined(n).nrq = nrq
      /\ Joined(n).queues = streams[i].queues \cup {n}
      /\ Joined(n).streaming = streams[i].streaming
  BY <1>2, <1>3, <1>4, Zenon DEF StreamType
<1>6. /\ su \in StreamType /\ su.refs = Joined(n).refs
      /\ su.vc = Joined(n).vc /\ su.nrq = Joined(n).nrq
      /\ su.queues = Joined(n).queues /\ su.streaming
  BY <1>5, Zenon DEF StreamType
<1> HIDE DEF su
<1>7. ASSUME StreamOnWaits(n) PROVE Waits(n, i, Joined(n))
  <2>1. /\ Agrees(n) /\ streams' = [streams EXCEPT ![i] = Joined(n)]
        /\ pc' = [pc EXCEPT ![n] = "on"] /\ queued' = queued /\ UNCHANGED fwVars
        /\ UNCHANGED <<subVars, nodeVars, av, isr, late, moved>>
    BY <1>7, Zenon DEF StreamOnWaits
  <2>2. fw' = fw /\ fw \subseteq Streams
    BY <2>1, Zenon DEF fwVars, Shape
  <2>3. OnStep(n, i, Joined(n))
    BY <1>1, <1>5, <2>1, <2>2, Ons, Zenon DEF nrq
  <2> QED  BY <1>5, <2>1, <2>3, Zenon DEF Waits
<1>8. ASSUME StreamOnStarts(n) PROVE Starts(n, i, su)
  <2>1. /\ Agrees(n) /\ streams' = [streams EXCEPT ![i] = su] /\ fw' = fw \cup {i}
        /\ pc' = [pc EXCEPT ![n] = "on"] /\ queued' = queued
        /\ UNCHANGED <<subVars, nodeVars, av, isr, late, moved>>
        /\ Cardinality(Joined(n).queues) = Joined(n).nrq /\ Configured(Joined(n).queues)
    BY <1>8, Zenon DEF StreamOnStarts, Started, Ready, su
  <2>2. fw' \subseteq Streams
    BY <1>1, <2>1, Zenon DEF Shape
  <2>3. OnStep(n, i, su)
    BY <1>1, <1>5, <1>6, <2>1, <2>2, Ons, ZenonT(30) DEF nrq
  <2> QED  BY <1>6, <2>1, <2>3, Zenon DEF Starts
<1> QED  BY <1>7, <1>8, Zenon DEF su

\* The buffer a stream waited for comes.
LEMMA Arrives ==
    ASSUME Shape, NEW n \in Nodes, NodeOK(n), NEW size, QBufStarts(n, size),
           NEW i, i = av[n].stream, StreamOK(i)
    PROVE  Starts(n, i, [streams[i] EXCEPT !.streaming = TRUE])
<1> DEFINE su == [streams[i] EXCEPT !.streaming = TRUE]
<1>1. /\ i \in Streams /\ queued[n] \subseteq alloc[n] /\ pc[n] = "on"
  BY Zenon DEF NodeOK, Node, QBufStarts
<1>2. streams[i] \in StreamType
  BY <1>1, Zenon DEF Shape
<1>3. /\ su \in StreamType /\ su.refs = streams[i].refs
      /\ su.vc = streams[i].vc /\ su.nrq = streams[i].nrq
      /\ su.queues = streams[i].queues /\ su.streaming
  BY <1>2, Zenon DEF StreamType
<1>4. n \in streams[i].queues
  BY <1>1, Zenon DEF StreamOK
<1>5. /\ size \in alloc[n] /\ Current(n).size <= size
      /\ queued' = [queued EXCEPT ![n] = queued[n] \cup {size}]
      /\ UNCHANGED <<subVars, nodeVars, pc, av, isr, late, moved>>
      /\ streams' = [streams EXCEPT ![i] = su] /\ fw' = fw \cup {i}
      /\ Cardinality(streams[i].queues) = streams[i].nrq /\ Configured(streams[i].queues)
  BY Zenon DEF QBufStarts, Fits, Queued, Started, Ready, callVars
<1> HIDE DEF su
<1>6. fw' \subseteq Streams
  <2>1. fw \subseteq Streams
    BY Zenon DEF Shape
  <2> QED  BY <1>1, <1>5, <2>1, Zenon
<1>7. /\ su.queues = streams[i].queues \cup {n} /\ queued[n] \cup {size} \subseteq alloc[n]
      /\ su.nrq = IF streams[i].queues = {} THEN av[n].nrq ELSE streams[i].nrq
      /\ \A s \in queued[n] \cup {size} : s \in queued[n] \/ Current(n).size <= s
  BY <1>1, <1>3, <1>4, <1>5, Zenon
<1>8. OnStep(n, i, su)
  BY <1>1, <1>3, <1>5, <1>6, <1>7, Ons, Zenon
<1> QED  BY <1>3, <1>5, <1>8, Zenon DEF Starts, su

\* The stream a node waits in, or that starts, has the queues of its nodes.
OnFacts(i, st) ==
    /\ i \in Streams /\ StreamOK(i)
    /\ \A m \in Nodes : m \in st.queues <=> pc'[m] = "on" /\ av'[m].stream = i
    /\ \A m \in Nodes, j \in Streams \ {i} :
          pc'[m] = "on" /\ av'[m].stream = j <=> pc[m] = "on" /\ av[m].stream = j
    /\ st.nrq \in Nat /\ streams[i].nrq \in Nat
    /\ st.queues \in SUBSET Nodes /\ streams[i].queues \in SUBSET Nodes

\* Then a node is in the queues of its stream exactly when it is on.
LEMMA OnStream ==
    ASSUME BufInv, NEW n \in Nodes, NEW i, NEW st, OnStep(n, i, st)
    PROVE  OnFacts(i, st)
<1>1. i \in Streams /\ StreamOK(i) /\ i = av[n].stream
  BY Zenon DEF OnStep, BufInv
<1>2. /\ av' = av /\ st.queues = streams[i].queues \cup {n}
      /\ pc'[n] = "on" /\ \A m \in Nodes \ {n} : pc'[m] = pc[m]
  BY Zenon DEF OnStep, Only
<1>3. \A m \in Nodes : m \in st.queues <=> pc'[m] = "on" /\ av'[m].stream = i
  BY <1>1, <1>2, Zenon DEF StreamOK
<1>4. \A m \in Nodes, j \in Streams \ {i} :
         pc'[m] = "on" /\ av'[m].stream = j <=> pc[m] = "on" /\ av[m].stream = j
  BY <1>1, <1>2, Zenon
<1>5. st \in StreamType /\ streams[i] \in StreamType
  BY <1>1, Zenon DEF OnStep, BufInv, Shape
<1>6. /\ st.nrq \in Nat /\ streams[i].nrq \in Nat
      /\ st.queues \in SUBSET Nodes /\ streams[i].queues \in SUBSET Nodes
  BY <1>5, Zenon DEF StreamType
<1> QED  BY <1>1, <1>3, <1>4, <1>6, Zenon DEF OnFacts

\* Adding a queue to a stream that waits keeps the invariant,
LEMMA WaitsKeep ==
    ASSUME BufInv, Counting, NEW n \in Nodes, NEW i, NEW st, Waits(n, i, st)
    PROVE  BufInv'
<1>1. /\ OnStep(n, i, st) /\ pc[n] = "piped" /\ pins' = pins
      /\ st.streaming = streams[i].streaming /\ Only(n)
  BY Zenon DEF Waits, fwVars, OnStep
<1>2. /\ i \in Streams /\ StreamOK(i)
      /\ \A m \in Nodes : m \in st.queues <=> pc'[m] = "on" /\ av'[m].stream = i
      /\ \A m \in Nodes, j \in Streams \ {i} :
            pc'[m] = "on" /\ av'[m].stream = j <=> pc[m] = "on" /\ av[m].stream = j
      /\ st.nrq \in Nat /\ streams[i].nrq \in Nat
      /\ st.queues \in SUBSET Nodes /\ streams[i].queues \in SUBSET Nodes
  <2>1. OnFacts(i, st)
    BY <1>1, OnStream, Zenon
  <2> QED  BY <2>1, Zenon DEF OnFacts
<1>3. /\ streams'[i] = st /\ st.queues = streams[i].queues \cup {n}
      /\ streams[i].queues # {} => st.nrq = streams[i].nrq
      /\ \A j \in Streams \ {i} : streams'[j] = streams[j]
      /\ UNCHANGED <<type, fmt, late>> /\ Shape' /\ NodeOK(n)'
  BY <1>1, Zenon DEF OnStep, nodeVars
<1>4. st.streaming => Cardinality(st.queues) > st.nrq
  <2>1. n \notin streams[i].queues
    BY <1>1, <1>2, Zenon DEF StreamOK
  <2>2. Cardinality(st.queues) = Cardinality(streams[i].queues) + 1
        /\ Cardinality(streams[i].queues) \in Nat
    <3>1. /\ Cardinality(streams[i].queues) \in Nat
          /\ Cardinality(streams[i].queues \cup {n}) = Cardinality(streams[i].queues) + 1
      BY <1>2, <2>1, Zenon DEF Counting
    <3> QED  BY <1>3, <3>1, Zenon
  <2>3. streams[i].streaming => /\ Cardinality(streams[i].queues) >= streams[i].nrq
                                /\ streams[i].queues # {}
    BY <1>2, Zenon DEF StreamOK
  <2> QED  BY <1>1, <1>2, <1>3, <2>2, <2>3
<1>5. StreamOK(i)'
  <2>1. /\ st.streaming => Cardinality(st.queues) >= st.nrq
        /\ ~Capturing(st)
    <3>1. Cardinality(st.queues) \in Nat
      BY <1>2, Zenon DEF Counting
    <3> QED  BY <1>2, <1>4, <3>1 DEF Capturing
  <2>2. st.queues # {}
    BY <1>3, Zenon
  <2> QED  BY <1>2, <1>3, <2>1, <2>2, Zenon DEF StreamOK
<1>6. \A j \in Streams : StreamOK(j)'
  BY <1>1, <1>2, <1>3, <1>5, OtherStreams, Zenon DEF BufInv
<1> QED  BY <1>1, <1>3, <1>6, OnlyNode, Zenon DEF BufInv

\* so does starting the stream with the pins of its queues,
LEMMA StartsKeep ==
    ASSUME BufInv, NEW n \in Nodes, NEW i, NEW st, Starts(n, i, st)
    PROVE  BufInv'
<1>1. /\ OnStep(n, i, st) /\ Cardinality(st.queues) = st.nrq
      /\ pins' = [m \in Nodes |-> IF m \in st.queues THEN PinOf(m) ELSE pins[m]] /\ Only(n)
  BY Zenon DEF Starts, Configured, OnStep
<1>2. /\ i \in Streams
      /\ \A m \in Nodes : m \in st.queues <=> pc'[m] = "on" /\ av'[m].stream = i
      /\ \A m \in Nodes, j \in Streams \ {i} :
            pc'[m] = "on" /\ av'[m].stream = j <=> pc[m] = "on" /\ av[m].stream = j
      /\ st.nrq \in Nat /\ st.queues \in SUBSET Nodes
  <2>1. OnFacts(i, st)
    BY <1>1, OnStream, Zenon
  <2> QED  BY <2>1, Zenon DEF OnFacts
<1>3. /\ streams'[i] = st /\ st.queues = streams[i].queues \cup {n} /\ n \in st.queues
      /\ \A j \in Streams \ {i} : streams'[j] = streams[j]
      /\ UNCHANGED <<type, fmt, late>> /\ Shape' /\ NodeOK(n)'
  BY <1>1, Zenon DEF OnStep, nodeVars
<1>4. \A m \in st.queues : pins'[m].bpl = Current(m)'.bpl /\ pins'[m].h = Current(m)'.h
  <2> SUFFICES ASSUME NEW m \in st.queues
               PROVE  pins'[m].bpl = Current(m)'.bpl /\ pins'[m].h = Current(m)'.h
    BY Zenon
  <2>1. pins'[m] = PinOf(m)
    BY <1>1, <1>2, Zenon
  <2>2. Current(m)' = Current(m)
    BY <1>3, Zenon DEF Current
  <2>3. PinOf(m).bpl = Current(m).bpl /\ PinOf(m).h = Current(m).h
    BY Zenon DEF PinOf
  <2> QED  BY <2>1, <2>2, <2>3, Zenon
<1>5. StreamOK(i)'
  <2>1. Cardinality(st.queues) >= st.nrq /\ st.queues # {}
    BY <1>1, <1>2, <1>3
  <2> QED  BY <1>2, <1>3, <1>4, <2>1, Zenon DEF StreamOK
<1>6. \A m \in Nodes \ st.queues : pins'[m] = pins[m]
  BY <1>1, Zenon
<1>7. \A j \in Streams : StreamOK(j)'
  BY <1>2, <1>3, <1>5, <1>6, OtherStreams, Zenon DEF BufInv
<1> QED  BY <1>1, <1>3, <1>7, OnlyNode, Zenon DEF BufInv

\* and stopping it.
LEMMA OffKeeps ==
    ASSUME BufInv, NEW n \in Nodes, StreamOff(n)
    PROVE  BufInv'
<1>1. PICK i : i = av[n].stream
  BY Zenon
<1>2. /\ PutStep(n, i, Left(n, i)) /\ pc[n] = "on" /\ StreamOK(i)
      /\ Left(n, i).queues = streams[i].queues \ {n} /\ ~Left(n, i).streaming
      /\ \A m \in Nodes \ streams[i].queues : pins'[m] = pins[m]
  BY <1>1, Stopped DEF BufInv, fwVars, PutStep
<1>3. /\ i \in Streams /\ streams'[i] = Left(n, i)
      /\ \A j \in Streams \ {i} : streams'[j] = streams[j]
      /\ UNCHANGED <<type, fmt, late>> /\ Shape' /\ NodeOK(n)' /\ Only(n)
      /\ pc'[n] = "off" /\ \A m \in Nodes \ {n} : pc'[m] = pc[m] /\ av'[m] = av[m]
  BY <1>2, Zenon DEF PutStep, nodeVars, Only
<1>4. StreamOK(i)'
  <2>1. \A m \in Nodes : m \in streams'[i].queues <=> pc'[m] = "on" /\ av'[m].stream = i
    BY <1>2, <1>3 DEF StreamOK
  <2> QED  BY <1>2, <1>3, <2>1, Zenon DEF StreamOK, Capturing
<1>5. \A m \in Nodes, j \in Streams \ {i} :
         pc'[m] = "on" /\ av'[m].stream = j <=> pc[m] = "on" /\ av[m].stream = j
  BY <1>1, <1>3, Zenon
<1>6. \A j \in Streams : StreamOK(j)'
  BY <1>2, <1>3, <1>4, <1>5, OtherStreams, Zenon DEF BufInv
<1> QED  BY <1>3, <1>6, OnlyNode, Zenon DEF BufInv

\* The interrupt handler only counts references.
IsrStep ==
    /\ Shape' /\ UNCHANGED <<subVars, nodeVars, queued, callVars, fwVars, late, moved>>
    /\ \E s \in Streams :
          /\ \/ /\ isr = NoStream /\ isr' = s /\ streams[s].refs > 0
                /\ streams'[s] = [streams[s] EXCEPT !.refs = @ + 1]
             \/ /\ isr = s /\ isr' = NoStream
                /\ streams'[s] = Put(s)
          /\ \A j \in Streams \ {s} : streams'[j] = streams[j]

\* The interrupt handler's query and put are such steps.
LEMMA IsrSteps ==
    ASSUME Shape, (\E i \in Streams : IsrQuery(i)) \/ IsrPut
    PROVE  IsrStep
<1>1. ASSUME NEW s \in Streams, NEW st \in StreamType,
             UNCHANGED <<subVars, nodeVars, queued, callVars, fwVars, late, moved>>,
             streams' = [streams EXCEPT ![s] = st],
             \/ /\ isr = NoStream /\ isr' = s /\ streams[s].refs > 0
                /\ st = [streams[s] EXCEPT !.refs = @ + 1]
             \/ /\ isr = s /\ isr' = NoStream
                /\ st = Put(s)
      PROVE  IsrStep
  <2>1. /\ streams' \in [Streams -> StreamType] /\ streams'[s] = st
        /\ \A j \in Streams \ {s} : streams'[j] = streams[j]
    BY <1>1, Zenon DEF Shape
  <2>2. isr' \in Streams \cup {NoStream}
    BY <1>1, Zenon
  <2>3. Shape'
    BY <1>1, <2>1, <2>2, Zenon DEF Shape, nodeVars, callVars, fwVars
  <2>4. \/ /\ isr = NoStream /\ isr' = s /\ streams[s].refs > 0
           /\ streams'[s] = [streams[s] EXCEPT !.refs = @ + 1]
        \/ /\ isr = s /\ isr' = NoStream
           /\ streams'[s] = Put(s)
    BY <1>1, <2>1, Zenon
  <2> QED  BY <1>1, <2>1, <2>3, <2>4, Zenon DEF IsrStep
<1>2. ASSUME NEW s \in Streams, IsrQuery(s) PROVE IsrStep
  <2> DEFINE st == [streams[s] EXCEPT !.refs = @ + 1]
  <2>1. streams[s] \in StreamType
    BY Zenon DEF Shape
  <2>2. streams[s].refs + 1 \in Nat
    BY <2>1 DEF StreamType
  <2>3. st \in StreamType
    BY <2>1, <2>2, Zenon DEF StreamType
  <2>4. /\ streams' = [streams EXCEPT ![s] = st]
        /\ isr = NoStream /\ isr' = s /\ streams[s].refs > 0
        /\ UNCHANGED <<subVars, nodeVars, queued, callVars, fwVars, late, moved>>
    BY <1>2, Zenon DEF IsrQuery, Shape, Refs
  <2>5. st = [streams[s] EXCEPT !.refs = @ + 1]
    BY Zenon
  <2> HIDE DEF st
  <2> QED  BY <1>1, <2>3, <2>4, <2>5, Zenon
<1>3. ASSUME IsrPut PROVE IsrStep
  <2>1. isr \in Streams
    BY <1>3, Zenon DEF IsrPut, Shape
  <2>2. Put(isr) \in StreamType
    BY <2>1, PutStream, Zenon
  <2> QED  BY <1>1, <1>3, <2>1, <2>2, Zenon DEF IsrPut
<1> QED  BY <1>2, <1>3, Zenon

\* A step of the sub-device, and a stuttering step.
SubStep ==
    /\ UNCHANGED <<nodeVars, queued, callVars, streams, isr, fwVars, late>>
    /\ moved' = (moved \/ Watched) \/ UNCHANGED <<subVars, moved>>

\* Every step is one of these.
LEMMA Kinds ==
    ASSUME SubInv, Counting, Shape, \A n \in Nodes : NodeOK(n),
           \A i \in Streams : StreamOK(i), [Next]_vars
    PROVE  \/ SubStep \/ IsrStep
           \/ \E n \in Nodes :
                 \/ BufStep(n) \/ CallStep(n) \/ \E s \in StreamFor(av[n].vc) : GetStep(n, s)
                 \/ StreamOnFails(n) \/ StreamOff(n)
                 \/ \E st : Waits(n, av[n].stream, st) \/ Starts(n, av[n].stream, st)
<1>1. CASE UNCHANGED vars
  BY <1>1, Zenon DEF vars, SubStep
<1>2. ASSUME NEW s, NEW f, SetFmt(s, f) PROVE SubStep
  BY <1>2, Zenon DEF SetFmt, Touch, SubStep
<1>3. ASSUME NEW n, NEW x, NEW y, SetSel(n, x, y) PROVE SubStep
  BY <1>3, Zenon DEF SetSel, Touch, SubStep
<1>4. ASSUME NEW r, SetRouting(r) PROVE SubStep
  BY <1>4, Zenon DEF SetRouting, Touch, SubStep
<1>5. ASSUME NEW n \in Nodes,
             \/ \E f \in NodeFormats[n] : SFmtVideo(n, f)
             \/ \E f \in NodeFormats[n] : SFmtMeta(n, f)
             \/ \E t \in UsedTypes[n] : ReqBufs(n, t)
             \/ FreeBufs(n)
             \/ \E t \in UsedTypes[n], size \in Sizes[n] : CreateBufs(n, t, size)
             \/ \E size \in alloc[n] : QBuf(n, size)
             \/ \E size \in queued[n] : Done(n, size)
      PROVE  BufStep(n)
  <2>1. UsedTypes[n] \subseteq Types /\ "video" \in Types
    BY NodeAssumption, Zenon DEF Types
  <2> QED  BY <1>5, <2>1, SetFormats, SetBuffers, MoveBuffers, Zenon
<1>6. ASSUME NEW n \in Nodes, SetupVideo(n) \/ PipelineRefused(n) PROVE CallStep(n)
  BY <1>6, Calls, Zenon
<1>7. ASSUME NEW n \in Nodes, PipelineStarted(n)
      PROVE  \E s \in StreamFor(av[n].vc) : GetStep(n, s)
  BY <1>7, Gets, Zenon
<1>8. ASSUME NEW n \in Nodes, StreamOnWaits(n) PROVE Waits(n, av[n].stream, Joined(n))
  BY <1>8, Joins, Zenon
<1>9. ASSUME NEW n \in Nodes, StreamOnStarts(n)
      PROVE  Starts(n, av[n].stream, [Joined(n) EXCEPT !.streaming = TRUE])
  BY <1>9, Joins, Zenon
<1>10. ASSUME NEW n \in Nodes, NEW size, QBufStarts(n, size)
       PROVE  Starts(n, av[n].stream, [streams[av[n].stream] EXCEPT !.streaming = TRUE])
  <2>1. av[n].stream \in Streams
    BY <1>10, Zenon DEF NodeOK, Node, QBufStarts
  <2> QED  BY <1>10, <2>1, Arrives, Zenon
<1> QED
  BY <1>1, <1>2, <1>3, <1>4, <1>5, <1>6, <1>7, <1>8, <1>9, <1>10, IsrSteps, Zenon DEF Next

\* Most steps leave what the streams run alone, and a node that is not off stays
\* as it was validated.
Validated(n) ==
    pc'[n] # "off" => \/ pc[n] # "off" /\ av'[n].nrq = av[n].nrq
                      \/ routes[n] # NoRoute /\ av'[n].nrq = RouteCount
SteadyStep ==
    /\ Steady /\ Shape' /\ UNCHANGED <<subVars, moved>>
    /\ \A n \in Nodes : NodeOK(n)' /\ Validated(n)

\* Every step is one of a sub-device, one that keeps streams and their nodes, a
\* STREAMOFF, or the end of a STREAMON.
LEMMA SteadySteps ==
    ASSUME BufInv, SubInv, Counting, [Next]_vars
    PROVE  \/ SubStep \/ SteadyStep
           \/ \E n \in Nodes :
                 \/ StreamOff(n)
                 \/ \E st : Waits(n, av[n].stream, st) \/ Starts(n, av[n].stream, st)
<1>0. Shape /\ (\A n \in Nodes : NodeOK(n)) /\ (\A i \in Streams : StreamOK(i))
  BY Zenon DEF BufInv
<1>2. CASE IsrStep
  <2>1. Shape' /\ UNCHANGED <<subVars, nodeVars, queued, callVars, fwVars, late, moved>>
    BY <1>2, Zenon DEF IsrStep
  <2>2. \A n \in Nodes : Validated(n)
    BY <2>1, Zenon DEF Validated, callVars
  <2>3. \A n \in Nodes : NodeOK(n)'
    BY <1>0, <2>1, Zenon DEF NodeOK, nodeVars, callVars
  <2>4. \A i \in Streams : /\ streams'[i].queues = streams[i].queues
                           /\ streams'[i].nrq = streams[i].nrq
                           /\ streams'[i].streaming = streams[i].streaming
    <3>1. \A s \in Streams : streams[s] \in StreamType
      BY <1>0, Zenon DEF Shape
    <3>2. \A s \in Streams : /\ [streams[s] EXCEPT !.refs = @ + 1].queues = streams[s].queues
                             /\ [streams[s] EXCEPT !.refs = @ + 1].nrq = streams[s].nrq
                             /\ [streams[s] EXCEPT !.refs = @ + 1].streaming = streams[s].streaming
      BY <3>1, Zenon DEF StreamType
    <3>3. \A s \in Streams : /\ Put(s).queues = streams[s].queues /\ Put(s).nrq = streams[s].nrq
                             /\ Put(s).streaming = streams[s].streaming
      BY <1>0, PutStream, Zenon
    <3>4. PICK s \in Streams :
             /\ streams'[s] = [streams[s] EXCEPT !.refs = @ + 1] \/ streams'[s] = Put(s)
             /\ \A j \in Streams \ {s} : streams'[j] = streams[j]
      BY <1>2, Zenon DEF IsrStep
    <3>5. /\ streams'[s].queues = streams[s].queues /\ streams'[s].nrq = streams[s].nrq
          /\ streams'[s].streaming = streams[s].streaming
      BY <3>2, <3>3, <3>4, ZenonT(30)
    <3> QED  BY <3>4, <3>5, Zenon
  <2>5. Steady
    <3>1. \A n \in Nodes : Keeps(n)
      BY <2>1, Zenon DEF Keeps, Current, nodeVars, callVars
    <3> QED  BY <2>1, <2>4, <3>1, Zenon DEF Steady, fwVars
  <2> QED  BY <2>1, <2>2, <2>3, <2>5, Zenon DEF SteadyStep
<1>3. ASSUME NEW n \in Nodes, Only(n), Keeps(n), Shape', NodeOK(n)', Validated(n),
             UNCHANGED <<subVars, fwVars, moved>>,
             \A i \in Streams : /\ streams'[i].queues = streams[i].queues
                                /\ streams'[i].nrq = streams[i].nrq
                                /\ streams'[i].streaming = streams[i].streaming
      PROVE  SteadyStep
  <2>1. Steady
    BY <1>3, OnlyKeeps, Zenon DEF Steady, fwVars
  <2>2. \A m \in Nodes : NodeOK(m)'
    BY <1>0, <1>3, OnlyNode, Zenon
  <2>3. \A m \in Nodes : Validated(m)
    BY <1>3, Zenon DEF Validated, Only
  <2> QED  BY <1>3, <2>1, <2>2, <2>3, Zenon DEF SteadyStep
<1>4. ASSUME NEW n \in Nodes, BufStep(n) \/ CallStep(n) PROVE SteadyStep
  <2>1. CASE BufStep(n)
    <3>1. Validated(n)
      BY <2>1, Zenon DEF BufStep, Validated, callVars
    <3> QED  BY <1>3, <2>1, <3>1, Zenon DEF BufStep
  <2>2. CASE CallStep(n)
    <3>1. Validated(n)
      BY <2>2, Zenon DEF CallStep, Validated
    <3> QED  BY <1>3, <2>2, <3>1, Zenon DEF CallStep
  <2> QED  BY <1>4, <2>1, <2>2, Zenon
<1>5. ASSUME NEW n \in Nodes, NEW s, GetStep(n, s) PROVE SteadyStep
  <2>1. streams[s] \in StreamType /\ s \in Streams /\ av[n] \in CallType
    BY <1>0, <1>5, Zenon DEF Shape, GetStep
  <2>2. /\ streams'[s].queues = streams[s].queues /\ streams'[s].nrq = streams[s].nrq
        /\ streams'[s].streaming = streams[s].streaming
    BY <1>5, <2>1, Zenon DEF GetStep, StreamType
  <2>3. Validated(n)
    <3>1. av'[n].nrq = av[n].nrq /\ pc[n] = "routed"
      BY <1>5, <2>1, Zenon DEF GetStep, CallType
    <3> QED  BY <3>1, Zenon DEF Validated
  <2> QED  BY <1>3, <1>5, <2>2, <2>3, Zenon DEF GetStep
<1>6. ASSUME NEW n \in Nodes, StreamOnFails(n) PROVE SteadyStep
  <2>1. /\ PutStep(n, av[n].stream, Put(av[n].stream)) /\ pc[n] = "piped"
        /\ UNCHANGED fwVars /\ av[n].stream \in Streams
    BY <1>0, <1>6, Fails, Zenon DEF PutStep
  <2>2. \A i \in Streams : /\ streams'[i].queues = streams[i].queues
                           /\ streams'[i].nrq = streams[i].nrq
                           /\ streams'[i].streaming = streams[i].streaming
    <3>1. PICK i \in Streams : i = av[n].stream
      BY <2>1, Zenon
    <3>2. streams'[i] = Put(i) /\ \A j \in Streams \ {i} : streams'[j] = streams[j]
      BY <2>1, <3>1, Zenon DEF PutStep
    <3>3. /\ Put(i).queues = streams[i].queues /\ Put(i).nrq = streams[i].nrq
          /\ Put(i).streaming = streams[i].streaming
      BY <1>0, PutStream, Zenon
    <3> QED  BY <3>2, <3>3, Zenon
  <2>3. Keeps(n) /\ Validated(n)
    BY <2>1, Zenon DEF PutStep, Keeps, Validated
  <2> QED  BY <1>3, <2>1, <2>2, <2>3, Zenon DEF PutStep
<1> QED
  BY <1>0, <1>2, <1>4, <1>5, <1>6, Kinds, Zenon

\* And each kind keeps the invariant.
LEMMA BufNext ==
    ASSUME BufInv, SubInv, Counting, [Next]_vars
    PROVE  BufInv'
<1>0. Shape /\ (\A n \in Nodes : NodeOK(n)) /\ (\A i \in Streams : StreamOK(i))
  BY Zenon DEF BufInv
<1>1. CASE SubStep
  <2>1. UNCHANGED <<nodeVars, queued, callVars, streams, isr, fwVars, late>>
    BY <1>1, Zenon DEF SubStep
  <2>2. Shape'
    BY <1>0, <2>1, Zenon DEF Shape, nodeVars, callVars, fwVars
  <2>3. \A n \in Nodes : NodeOK(n)'
    BY <1>0, <2>1, Zenon DEF NodeOK, nodeVars, callVars
  <2>4. Steady
    <3>1. \A n \in Nodes : Keeps(n)
      BY <2>1, Zenon DEF Keeps, Current, nodeVars, callVars
    <3> QED  BY <2>1, <3>1, Zenon DEF Steady, fwVars
  <2> QED  BY <1>0, <2>2, <2>3, <2>4, SteadyStreams, Zenon DEF BufInv
<1>2. CASE SteadyStep
  BY <1>0, <1>2, SteadyStreams, Zenon DEF SteadyStep, BufInv
<1> QED
  BY <1>1, <1>2, OffKeeps, WaitsKeep, StartsKeep, SteadySteps, Zenon

\* The sub-device's own steps.
LEMMA SubNext ==
    ASSUME SubInv, [Next]_vars
    PROVE  SubInv'
<1>1. ASSUME UNCHANGED subVars PROVE SubInv'
  BY <1>1, Zenon DEF SubInv, SourceFollowsSink, subVars
<1>2. CASE \/ UNCHANGED vars
           \/ \E s \in Sinks : \E f \in SubFormats[s] : SetFmt(s, f)
           \/ \E n \in Nodes : \E r \in Selections[n] : SetSel(n, r[1], r[2])
           \/ \E r \in Routings : SetRouting(r)
  BY <1>1, <1>2, SetFmtKeeps, SetSelKeeps, SubRouted, Zenon DEF vars
<1>3. CASE (\E i \in Streams : IsrQuery(i)) \/ IsrPut
  BY <1>1, <1>3, Zenon DEF IsrQuery, IsrPut
<1>4. ASSUME NEW n, NEW f, NEW t, NEW size,
             \/ SFmtVideo(n, f) \/ SFmtMeta(n, f) \/ ReqBufs(n, t) \/ FreeBufs(n)
             \/ CreateBufs(n, t, size) \/ QBuf(n, size) \/ QBufStarts(n, size) \/ Done(n, size)
      PROVE  UNCHANGED subVars
  BY <1>4, Zenon DEF SFmtVideo, SFmtMeta, ReqBufs, FreeBufs, CreateBufs, QBuf, QBufStarts, Done
<1>5. ASSUME NEW n,
             \/ SetupVideo(n) \/ PipelineStarted(n) \/ PipelineRefused(n) \/ StreamOnWaits(n)
             \/ StreamOnStarts(n) \/ StreamOnFails(n) \/ StreamOff(n)
      PROVE  UNCHANGED subVars
  BY <1>5, Zenon DEF SetupVideo, PipelineStarted, PipelineRefused, StreamOnWaits,
     StreamOnStarts, StreamOnFails, StreamOff
<1> QED  BY <1>1, <1>2, <1>3, <1>4, <1>5, Zenon DEF Next

\* A routed source pad has the format of its sink, cropped to the selected lines
\* and with the Bayer order that goes with them, after any sequence of format,
\* selection and routing calls, for any tables of codes and any image sizes.
THEOREM SourcePadsFollow == Spec => []SourceFollowsSink
<1>1. Init => SubInv
  <2>1. Init => \E r \in Routings : routes = r
    BY Zenon DEF Init
  <2> QED  BY <2>1, SubRouted, Zenon
<1>2. SubInv /\ [Next]_vars => SubInv'
  BY SubNext, Zenon
<1>3. SubInv => SourceFollowsSink
  BY Zenon DEF SubInv
<1> QED  BY <1>1, <1>2, <1>3, PTL DEF Spec


-----------------------------------------------------------------------------
(* The stream table.                                                       *)

\* The inductive strengthening of StreamsOwned: with the invariant of the
\* buffers, which says which calls hold a stream, it is nearly inductive itself.
Users(i) == {n \in Nodes : av[n].stream = i}
ByIsr(i) == IF isr = i THEN 1 ELSE 0
Counted(i) == Refs(i) = Cardinality(Users(i)) + ByIsr(i)
TableInv ==
    /\ \A i \in Streams : Counted(i)
    /\ \A n \in Nodes : av[n].stream # NoStream => streams[av[n].stream].vc = av[n].vc
    /\ \A i, j \in Streams :
          Refs(i) > 0 /\ Refs(j) > 0 /\ streams[i].vc = streams[j].vc => i = j

\* The invariant says what it is for.
LEMMA TableImplies == TableInv => StreamsOwned
BY Zenon DEF TableInv, StreamsOwned, Counted, Users, ByIsr

\* The types that matter here, from the invariant of the buffers.
LEMMA TableShape ==
    ASSUME BufInv
    PROVE  /\ NoStream \notin Streams
           /\ \A i \in Streams : /\ streams[i] \in StreamType /\ Refs(i) \in Nat
                                 /\ Users(i) \in SUBSET Nodes
           /\ \A n \in Nodes : /\ av[n] \in CallType
                               /\ av[n].stream \in Streams \cup {NoStream}
                               /\ av[n].stream \in Streams <=> pc[n] \in {"piped", "on"}
<1>1. NoStream \notin Streams
  BY DEF Streams, NoStream
<1>2. Shape /\ \A n \in Nodes : NodeOK(n)
  BY Zenon DEF BufInv
<1>3. \A i \in Streams : streams[i] \in StreamType
  BY <1>2, Zenon DEF Shape
<1>4. \A n \in Nodes : av[n] \in CallType
  BY <1>2, Zenon DEF Shape
<1>5. \A n \in Nodes : av[n].stream \in Streams \cup {NoStream}
  BY <1>4, Zenon DEF CallType
<1>6. \A i \in Streams : Refs(i) \in Nat
  BY <1>3, Zenon DEF StreamType, Refs
<1> QED  BY <1>1, <1>2, <1>3, <1>4, <1>5, <1>6, Zenon DEF NodeOK, Node, Users

\* A node's stream keeps its channel.
LEMMA ChannelKept ==
    ASSUME TableInv, BufInv, NEW n \in Nodes, av'[n].stream # NoStream,
           av'[n].stream = av[n].stream, av'[n].vc = av[n].vc,
           \A j \in Streams : streams'[j].vc = streams[j].vc
    PROVE  streams'[av'[n].stream].vc = av'[n].vc
<1>1. PICK i \in Streams : i = av[n].stream
  BY TableShape, Zenon
<1>2. streams[i].vc = av[n].vc
  BY <1>1, Zenon DEF TableInv
<1>3. streams'[i].vc = av'[n].vc
  BY <1>2, Zenon
<1> QED  BY <1>1, <1>3, Zenon

\* A step that changes no reference.
LEMMA TableKeeps ==
    ASSUME TableInv, BufInv, isr' = isr,
           \A i \in Streams : streams'[i].refs = streams[i].refs /\ streams'[i].vc = streams[i].vc,
           \A n \in Nodes : /\ av'[n].stream = av[n].stream
                            /\ av[n].stream # NoStream => av'[n].vc = av[n].vc
    PROVE  TableInv'
<1>1. \A i \in Streams : Users(i)' = Users(i) /\ ByIsr(i)' = ByIsr(i) /\ Refs(i)' = Refs(i)
  BY Zenon DEF Users, ByIsr, Refs
<1>2. \A i \in Streams : Counted(i)'
  BY <1>1, Zenon DEF TableInv, Counted
<1>3. \A n \in Nodes : av'[n].stream # NoStream => streams'[av'[n].stream].vc = av'[n].vc
  BY ChannelKept, Zenon
<1> QED  BY <1>1, <1>2, <1>3, Zenon DEF TableInv

\* One stream's references change, by those of a node or of the handler.
LEMMA TableMoves ==
    ASSUME TableInv, BufInv, NEW i \in Streams, Counted(i)',
           \A j \in Streams \ {i} : /\ streams'[j] = streams[j] /\ Users(j)' = Users(j)
                                    /\ ByIsr(j)' = ByIsr(j)
    PROVE  /\ \A j \in Streams : Counted(j)'
           /\ \A j \in Streams \ {i} : Refs(j)' = Refs(j)
<1>1. \A j \in Streams \ {i} : Refs(j)' = Refs(j)
  BY Zenon DEF Refs
<1>2. \A j \in Streams \ {i} : Counted(j)'
  BY <1>1, Zenon DEF TableInv, Counted
<1> QED  BY <1>1, <1>2, Zenon

\* A node lets go of its stream.
LEMMA TablePut ==
    ASSUME TableInv, BufInv, Counting, NEW n \in Nodes, NEW i, NEW st, PutStep(n, i, st),
           st.refs = Put(i).refs, st.vc = streams[i].vc
    PROVE  TableInv'
<1>1. /\ i \in Streams /\ i = av[n].stream /\ av'[n].stream = NoStream /\ streams'[i] = st
      /\ \A j \in Streams \ {i} : streams'[j] = streams[j]
      /\ \A m \in Nodes \ {n} : av'[m] = av[m]
      /\ isr' = isr
  BY Zenon DEF PutStep, Only
<1>2. /\ NoStream \notin Streams /\ Refs(i) \in Nat /\ Users(i) \in SUBSET Nodes
      /\ \A m \in Nodes : av[m].stream \in Streams \cup {NoStream}
  BY <1>1, TableShape, Zenon
<1>3. Users(i)' = Users(i) \ {n} /\ n \in Users(i)
  BY <1>1, <1>2, ZenonT(30) DEF Users
<1>4. \A j \in Streams \ {i} : Users(j)' = Users(j) /\ ByIsr(j)' = ByIsr(j)
  <2>1. \A j \in Streams \ {i}, m \in Nodes : av'[m].stream = j <=> av[m].stream = j
    BY <1>1, <1>2, Zenon
  <2> QED  BY <1>1, <2>1, Zenon DEF Users, ByIsr
<1>5. /\ Cardinality(Users(i)) \in Nat /\ Cardinality(Users(i)) # 0
      /\ Cardinality(Users(i)') = Cardinality(Users(i)) - 1
  <2>1. /\ Cardinality(Users(i)) \in Nat /\ Cardinality(Users(i)) # 0
        /\ Cardinality(Users(i) \ {n}) = Cardinality(Users(i)) - 1
    BY <1>2, <1>3, Zenon DEF Counting
  <2> QED  BY <1>3, <2>1, Zenon
<1>6. Counted(i) /\ ByIsr(i) \in Nat /\ ByIsr(i)' = ByIsr(i)
  <2>1. Counted(i) /\ ByIsr(i)' = ByIsr(i)
    BY <1>1, Zenon DEF TableInv, ByIsr
  <2>2. ByIsr(i) \in Nat
    BY DEF ByIsr
  <2> QED  BY <2>1, <2>2, Zenon
<1>7. Refs(i) > 0
  BY <1>5, <1>6 DEF Counted
<1>8. Refs(i)' = Refs(i) - 1 /\ streams'[i].vc = streams[i].vc
  BY <1>1, <1>7, PutStream, Zenon DEF Refs, BufInv
<1>9. Counted(i)'
  BY <1>2, <1>5, <1>6, <1>8 DEF Counted
<1>10. /\ \A j \in Streams : Counted(j)'
       /\ \A j \in Streams \ {i} : Refs(j)' = Refs(j)
  BY <1>1, <1>4, <1>9, TableMoves, Zenon
<1>11. \A j \in Streams : streams'[j].vc = streams[j].vc /\ (Refs(j)' > 0 => Refs(j) > 0)
  BY <1>1, <1>7, <1>8, <1>10, Zenon
<1>12. \A m \in Nodes : av'[m].stream # NoStream => streams'[av'[m].stream].vc = av'[m].vc
  BY <1>1, <1>11, ChannelKept, Zenon
<1> QED  BY <1>10, <1>11, <1>12, ZenonT(30) DEF TableInv

\* The interrupt handler takes a reference, and drops it.
LEMMA TableIsr ==
    ASSUME TableInv, BufInv, Counting, IsrStep
    PROVE  TableInv'
<1>1. PICK s \in Streams :
         /\ \/ /\ isr = NoStream /\ isr' = s /\ streams[s].refs > 0
               /\ streams'[s] = [streams[s] EXCEPT !.refs = @ + 1]
            \/ /\ isr = s /\ isr' = NoStream
               /\ streams'[s] = Put(s)
         /\ \A j \in Streams \ {s} : streams'[j] = streams[j]
  BY Zenon DEF IsrStep
<1>2. av' = av /\ \A i \in Streams : Users(i)' = Users(i)
  BY Zenon DEF IsrStep, callVars, Users
<1>3. /\ NoStream \notin Streams /\ Refs(s) \in Nat /\ Users(s) \in SUBSET Nodes
      /\ streams[s] \in StreamType
      /\ \A m \in Nodes : av[m].stream \in Streams \cup {NoStream}
  BY TableShape, Zenon
<1>4. Cardinality(Users(s)) \in Nat /\ Counted(s)
  BY <1>3, Zenon DEF Counting, TableInv
<1>5. \A j \in Streams \ {s} : ByIsr(j)' = ByIsr(j)
  <2>1. isr \in {NoStream, s} /\ isr' \in {NoStream, s}
    BY <1>1, Zenon
  <2> QED  BY <1>3, <2>1, Zenon DEF ByIsr
<1>6. /\ streams'[s].vc = streams[s].vc /\ Refs(s) > 0
      /\ \/ Refs(s)' = Refs(s) + 1 /\ ByIsr(s) = 0 /\ ByIsr(s)' = 1
         \/ Refs(s)' = Refs(s) - 1 /\ ByIsr(s) = 1 /\ ByIsr(s)' = 0
  <2>1. CASE isr = NoStream /\ isr' = s /\ streams[s].refs > 0
             /\ streams'[s] = [streams[s] EXCEPT !.refs = @ + 1]
    BY <1>3, <2>1, Zenon DEF ByIsr, Refs, StreamType
  <2>2. CASE isr = s /\ isr' = NoStream /\ streams'[s] = Put(s)
    <3>1. ByIsr(s) = 1 /\ ByIsr(s)' = 0
      BY <1>3, <2>2, Zenon DEF ByIsr
    <3>2. Refs(s) > 0
      BY <1>4, <3>1 DEF Counted
    <3> QED  BY <2>2, <3>1, <3>2, PutStream, Zenon DEF BufInv, Refs
  <2> QED  BY <1>1, <2>1, <2>2, Zenon
<1>7. Counted(s)'
  <2>1. Cardinality(Users(s)') = Cardinality(Users(s))
    BY <1>2, Zenon
  <2> QED  BY <1>3, <1>4, <1>6, <2>1 DEF Counted
<1>8. /\ \A j \in Streams : Counted(j)'
      /\ \A j \in Streams \ {s} : Refs(j)' = Refs(j)
  BY <1>1, <1>2, <1>5, <1>7, TableMoves, Zenon
<1>9. \A j \in Streams : streams'[j].vc = streams[j].vc /\ (Refs(j)' > 0 => Refs(j) > 0)
  BY <1>1, <1>6, <1>8, Zenon
<1>10. \A m \in Nodes : av'[m].stream # NoStream => streams'[av'[m].stream].vc = av'[m].vc
  BY <1>2, <1>9, ChannelKept, Zenon
<1> QED  BY <1>8, <1>9, <1>10, Zenon DEF TableInv

\* ipu6_isys_get_stream: either the one stream of the channel, or one nobody
\* refers to when no stream has the channel.
LEMMA TableGet ==
    ASSUME TableInv, BufInv, Counting, NEW n \in Nodes, NEW s \in StreamFor(av[n].vc),
           GetStep(n, s)
    PROVE  TableInv'
<1>1. /\ s \in Streams /\ av'[n] = [av[n] EXCEPT !.stream = s] /\ pc[n] = "routed"
      /\ streams'[s] = [streams[s] EXCEPT !.refs = @ + 1, !.vc = av[n].vc]
      /\ \A j \in Streams \ {s} : streams'[j] = streams[j]
      /\ \A m \in Nodes \ {n} : av'[m] = av[m]
      /\ isr' = isr
  BY Zenon DEF GetStep, Only
<1>2. /\ NoStream \notin Streams /\ Refs(s) \in Nat /\ Users(s) \in SUBSET Nodes
      /\ streams[s] \in StreamType /\ av[n] \in CallType /\ av[n].stream = NoStream
      /\ \A m \in Nodes : av[m].stream \in Streams \cup {NoStream}
      /\ \A i \in Streams : Refs(i) \in Nat
  BY <1>1, TableShape, Zenon
<1>3. /\ av'[n].stream = s /\ av'[n].vc = av[n].vc
      /\ Refs(s)' = Refs(s) + 1 /\ streams'[s].vc = av[n].vc
  BY <1>1, <1>2, Zenon DEF CallType, StreamType, Refs
<1>4. /\ Users(s)' = Users(s) \cup {n} /\ n \notin Users(s)
      /\ \A j \in Streams \ {s} : Users(j)' = Users(j)
  <2>1. \A j \in Streams, m \in Nodes :
           av'[m].stream = j <=> av[m].stream = j \/ (m = n /\ j = s)
    BY <1>1, <1>2, <1>3, Zenon
  <2>2. \A j \in Streams \ {s} : Users(j)' = Users(j)
    BY <2>1, Zenon DEF Users
  <2>3. \A m \in Nodes : m \in Users(s)' <=> m \in Users(s) \/ m = n
    BY <1>1, <2>1, Zenon DEF Users
  <2>4. Users(s)' \in SUBSET Nodes /\ n \notin Users(s)
    BY <1>1, <1>2, Zenon DEF Users
  <2> QED  BY <1>2, <2>2, <2>3, <2>4, Zenon
<1>5. /\ Cardinality(Users(s)) \in Nat /\ (Cardinality(Users(s)) = 0 => Users(s) = {})
      /\ Cardinality(Users(s)') = Cardinality(Users(s)) + 1
  <2>1. /\ Cardinality(Users(s)) \in Nat /\ (Cardinality(Users(s)) = 0 => Users(s) = {})
        /\ Cardinality(Users(s) \cup {n}) = Cardinality(Users(s)) + 1
    BY <1>2, <1>4, Zenon DEF Counting
  <2> QED  BY <1>4, <2>1, Zenon
<1>6. Counted(s) /\ ByIsr(s) \in Nat /\ \A i \in Streams : ByIsr(i)' = ByIsr(i)
  <2>1. Counted(s) /\ \A i \in Streams : ByIsr(i)' = ByIsr(i)
    BY <1>1, Zenon DEF TableInv, ByIsr
  <2>2. ByIsr(s) \in Nat
    BY DEF ByIsr
  <2> QED  BY <2>1, <2>2, Zenon
<1>7. Counted(s)'
  <2>1. ByIsr(s)' = ByIsr(s) /\ Refs(s) = Cardinality(Users(s)) + ByIsr(s)
    BY <1>1, <1>6, Zenon DEF Counted
  <2>2. Refs(s)' = Cardinality(Users(s)') + ByIsr(s)'
    BY <1>3, <1>5, <1>6, <2>1
  <2> QED  BY <2>2, Zenon DEF Counted
<1>8. /\ \A j \in Streams : Counted(j)'
      /\ \A j \in Streams \ {s} : Refs(j)' = Refs(j)
  BY <1>1, <1>4, <1>6, <1>7, TableMoves, Zenon
<1>9. /\ Users(s) # {} => streams[s].vc = av[n].vc
      /\ \A i \in Streams \ {s} : Refs(i) > 0 => streams[i].vc # av[n].vc
  <2>1. CASE Refs(s) > 0 /\ streams[s].vc = av[n].vc
    <3>1. \A i, j \in Streams :
             Refs(i) > 0 /\ Refs(j) > 0 /\ streams[i].vc = streams[j].vc => i = j
      BY Zenon DEF TableInv
    <3> QED  BY <1>1, <2>1, <3>1, Zenon
  <2>2. CASE Refs(s) = 0 /\ \A i \in Streams : Refs(i) > 0 => streams[i].vc # av[n].vc
    <3>1. Cardinality(Users(s)) = 0
      BY <1>5, <1>6, <2>2 DEF Counted
    <3> QED  BY <1>5, <2>2, <3>1, Zenon
  <2> QED  BY <2>1, <2>2, Zenon DEF StreamFor, First, Matching, Unused
<1>10. \A m \in Nodes : av'[m].stream # NoStream => streams'[av'[m].stream].vc = av'[m].vc
  <2>1. ASSUME NEW m \in Nodes \ {n}, av[m].stream # NoStream
        PROVE  streams'[av[m].stream].vc = av[m].vc
    <3>1. av[m].stream \in Streams /\ streams[av[m].stream].vc = av[m].vc
      BY <1>2, <2>1, Zenon DEF TableInv
    <3>2. CASE av[m].stream = s
      BY <1>3, <1>9, <3>1, <3>2, Zenon DEF Users
    <3>3. CASE av[m].stream # s
      BY <1>1, <3>1, <3>3, Zenon
    <3> QED  BY <3>2, <3>3, Zenon
  <2>2. \A m \in Nodes \ {n} : av'[m].stream = av[m].stream /\ av'[m].vc = av[m].vc
    BY <1>1, Zenon
  <2>3. streams'[av'[n].stream].vc = av'[n].vc
    BY <1>3, Zenon
  <2> QED  BY <2>1, <2>2, <2>3, Zenon
<1>11. \A i, j \in Streams :
          Refs(i)' > 0 /\ Refs(j)' > 0 /\ streams'[i].vc = streams'[j].vc => i = j
  <2>1. \A i \in Streams \ {s} : /\ Refs(i)' > 0 => streams'[i].vc # streams'[s].vc
                                 /\ Refs(i)' = Refs(i) /\ streams'[i].vc = streams[i].vc
    BY <1>1, <1>3, <1>8, <1>9, Zenon
  <2>2. \A i, j \in Streams :
           Refs(i) > 0 /\ Refs(j) > 0 /\ streams[i].vc = streams[j].vc => i = j
    BY Zenon DEF TableInv
  <2> QED  BY <2>1, <2>2, Zenon
<1> QED  BY <1>8, <1>10, <1>11, Zenon DEF TableInv

\* Every step.
LEMMA TableNext ==
    ASSUME TableInv, BufInv, SubInv, Counting, [Next]_vars
    PROVE  TableInv'
<1>0. Shape /\ (\A n \in Nodes : NodeOK(n)) /\ (\A i \in Streams : StreamOK(i)) /\ Counting
  BY Zenon DEF BufInv
<1>1. ASSUME UNCHANGED <<callVars, streams, isr>> PROVE TableInv'
  BY <1>1, TableKeeps, Zenon DEF callVars
<1>2. ASSUME NEW n \in Nodes, CallStep(n) PROVE TableInv'
  <2>1. \A m \in Nodes : /\ av'[m].stream = av[m].stream
                         /\ av[m].stream # NoStream => av'[m].vc = av[m].vc
    BY <1>2, Zenon DEF CallStep, Only
  <2>2. isr' = isr /\ streams' = streams
    BY <1>2, Zenon DEF CallStep
  <2> QED  BY <2>1, <2>2, TableKeeps, Zenon
<1>3. ASSUME NEW n \in Nodes, NEW i, NEW st, OnStep(n, i, st) PROVE TableInv'
  <2>1. isr' = isr /\ av' = av
    BY <1>3, Zenon DEF OnStep
  <2>2. \A j \in Streams : streams'[j].refs = streams[j].refs /\ streams'[j].vc = streams[j].vc
    BY <1>3, Zenon DEF OnStep
  <2> QED  BY <2>1, <2>2, TableKeeps, Zenon
<1>4. ASSUME NEW n \in Nodes, StreamOnFails(n) \/ StreamOff(n) PROVE TableInv'
  <2>1. PICK i : i = av[n].stream
    BY Zenon
  <2>2. CASE StreamOnFails(n)
    <3>1. PutStep(n, i, Put(i)) /\ i \in Streams
      BY <1>0, <2>1, <2>2, Fails, Zenon DEF PutStep
    <3>2. Put(i).vc = streams[i].vc
      BY <1>0, <3>1, PutStream, Zenon
    <3> QED  BY <1>0, <3>1, <3>2, TablePut, Zenon
  <2>3. CASE StreamOff(n)
    BY <1>0, <2>1, <2>3, Stopped, TablePut, Zenon
  <2> QED  BY <1>4, <2>2, <2>3, Zenon
<1>5. SubStep => TableInv'
  BY <1>1, Zenon DEF SubStep
<1>6. ASSUME NEW n \in Nodes, BufStep(n) PROVE TableInv'
  BY <1>1, <1>6, Zenon DEF BufStep
<1>7. ASSUME NEW n \in Nodes, NEW i, NEW st, Waits(n, i, st) \/ Starts(n, i, st) PROVE TableInv'
  BY <1>3, <1>7, Zenon DEF Waits, Starts
<1> QED
  BY <1>0, <1>2, <1>4, <1>5, <1>6, <1>7, TableIsr, TableGet, Kinds, Zenon

-----------------------------------------------------------------------------
(* What the firmware runs.                                                 *)

\* The inductive strengthening of RunsAsValidated.  While nothing is
\* reconfigured under a STREAMON, a stream waits for as many queues as there
\* are routes, so one that runs has them all, and none can join or outlive it.
NodeRuns(n) ==
    /\ pc[n] # "off" => routes[n] # NoRoute /\ av[n].nrq = RouteCount
    /\ pc[n] = "on" /\ n \notin late => src[n].w = Current(n).w /\ src[n].h = Current(n).h
PinRuns(p) == p.inw = p.w /\ p.inh = p.h
StreamRuns(i) ==
    /\ streams[i].queues # {} => streams[i].nrq = RouteCount
    /\ i \in fw => /\ streams[i].streaming
                   /\ \A n \in streams[i].queues \ late : PinRuns(pins[n])
RunInv == ~moved => (\A n \in Nodes : NodeRuns(n)) /\ (\A i \in Streams : StreamRuns(i))

\* The invariant says what it is for.
LEMMA RunImplies == BufInv /\ RunInv => RunsAsValidated
<1>1. BufInv => fw \subseteq Streams
  BY Zenon DEF BufInv, Shape
<1> QED  BY <1>1, Zenon DEF RunInv, RunsAsValidated, StreamRuns, PinRuns

\* A call to the sub-device comes while nothing streams, or is noticed.
LEMMA RunSub ==
    ASSUME BufInv, RunInv, SubStep
    PROVE  RunInv'
<1>1. UNCHANGED <<nodeVars, queued, callVars, streams, isr, fwVars, late>>
  BY Zenon DEF SubStep
<1>2. CASE UNCHANGED <<subVars, moved>>
  <2>1. RouteCount' = RouteCount
    BY <1>2, Zenon DEF RouteCount, subVars
  <2>2. \A n \in Nodes : NodeRuns(n) => NodeRuns(n)'
    BY <1>1, <1>2, <2>1, Zenon DEF NodeRuns, Current, nodeVars, callVars, subVars
  <2>3. \A i \in Streams : StreamRuns(i) => StreamRuns(i)'
    BY <1>1, <2>1, Zenon DEF StreamRuns, fwVars
  <2> QED  BY <1>2, <2>2, <2>3, Zenon DEF RunInv
<1>3. CASE moved' = (moved \/ Watched)
  <2> SUFFICES ASSUME ~moved, ~Watched
               PROVE  (\A n \in Nodes : NodeRuns(n)') /\ (\A i \in Streams : StreamRuns(i)')
    BY <1>3, Zenon DEF RunInv
  <2>1. \A n \in Nodes : pc[n] = "off" /\ pc'[n] = "off"
    BY <1>1, Zenon DEF Watched, callVars
  <2>2. \A i \in Streams : streams[i].queues = {} /\ ~streams[i].streaming
    <3>1. \A i \in Streams : StreamOK(i) /\ streams[i].queues \subseteq Nodes
      BY Zenon DEF BufInv, Shape, StreamType
    <3>2. ASSUME NEW i \in Streams PROVE streams[i].queues = {} /\ ~streams[i].streaming
      <4>1. \A n \in Nodes : n \notin streams[i].queues
        BY <2>1, <3>1, Zenon DEF StreamOK
      <4>2. streams[i].queues = {}
        BY <3>1, <4>1, Zenon
      <4> QED  BY <3>1, <4>2, Zenon DEF StreamOK
    <3> QED  BY <3>2, Zenon
  <2>3. \A i \in Streams : i \notin fw
    BY <2>2, Zenon DEF RunInv, StreamRuns
  <2>4. \A n \in Nodes : NodeRuns(n)'
    BY <2>1, Zenon DEF NodeRuns
  <2>5. \A i \in Streams : StreamRuns(i)'
    BY <1>1, <2>2, <2>3, Zenon DEF StreamRuns, fwVars
  <2> QED  BY <2>4, <2>5, Zenon
<1> QED  BY <1>2, <1>3, Zenon DEF SubStep

\* A step under which the streams and their nodes stay.
LEMMA RunSteady ==
    ASSUME BufInv, RunInv, SteadyStep
    PROVE  RunInv'
<1> SUFFICES ASSUME ~moved
             PROVE  (\A n \in Nodes : NodeRuns(n)') /\ (\A i \in Streams : StreamRuns(i)')
  BY Zenon DEF RunInv, SteadyStep
<1>1. /\ \A n \in Nodes : NodeRuns(n) /\ Keeps(n) /\ Validated(n)
      /\ \A i \in Streams : StreamRuns(i) /\ StreamOK(i) /\ streams[i].queues \subseteq Nodes
      /\ UNCHANGED subVars /\ Steady
  BY Zenon DEF RunInv, SteadyStep, BufInv, Shape, StreamType, Steady
<1>2. RouteCount' = RouteCount /\ routes' = routes /\ src' = src
  BY <1>1, Zenon DEF RouteCount, subVars
<1>3. ASSUME NEW n \in Nodes PROVE NodeRuns(n)'
  <2>1. NodeRuns(n) /\ Keeps(n) /\ Validated(n)
    BY <1>1, Zenon
  <2>2. pc'[n] # "off" => routes'[n] # NoRoute /\ av'[n].nrq = RouteCount'
    BY <1>2, <2>1, Zenon DEF NodeRuns, Validated
  <2>3. pc'[n] = "on" /\ n \notin late' =>
           pc[n] = "on" /\ n \notin late /\ Current(n)' = Current(n)
    BY <2>1, Zenon DEF Keeps
  <2>4. pc'[n] = "on" /\ n \notin late' =>
           src'[n].w = Current(n)'.w /\ src'[n].h = Current(n)'.h
    BY <1>2, <2>1, <2>3, Zenon DEF NodeRuns
  <2> QED  BY <2>2, <2>4, Zenon DEF NodeRuns
<1>4. ASSUME NEW i \in Streams PROVE StreamRuns(i)'
  <2>1. /\ streams'[i].queues = streams[i].queues /\ streams'[i].nrq = streams[i].nrq
        /\ streams'[i].streaming = streams[i].streaming /\ pins' = pins /\ fw' = fw
    BY <1>1, Zenon DEF Steady
  <2>2. \A n \in streams[i].queues : n \notin late' => n \notin late
    <3> SUFFICES ASSUME NEW n \in streams[i].queues PROVE n \notin late' => n \notin late
      BY Zenon
    <3>1. n \in Nodes /\ pc[n] = "on"
      BY <1>1, Zenon DEF StreamOK
    <3> QED  BY <1>1, <3>1, Zenon DEF Keeps
  <2>3. StreamRuns(i)
    BY <1>1, Zenon
  <2> QED  BY <1>2, <2>1, <2>2, <2>3, Zenon DEF StreamRuns
<1> QED  BY <1>3, <1>4, Zenon

\* The queues of a stream are routed, and a stream that runs has all of them.
LEMMA AllRouted ==
    ASSUME BufInv, Counting, RunInv, ~moved, NEW i \in Streams
    PROVE  /\ \A n \in streams[i].queues : n \in Nodes /\ routes[n] # NoRoute
           /\ streams[i].streaming =>
                 /\ Cardinality(streams[i].queues) = streams[i].nrq
                 /\ \A n \in Nodes : routes[n] # NoRoute => n \in streams[i].queues
<1>1. StreamOK(i) /\ streams[i].queues \in SUBSET Nodes /\ streams[i].nrq \in Nat
  <2>1. streams[i] \in StreamType /\ StreamOK(i)
    BY Zenon DEF BufInv, Shape
  <2> QED  BY <2>1, Zenon DEF StreamType
<1>2. \A n \in streams[i].queues : n \in Nodes /\ pc[n] = "on"
  BY <1>1, Zenon DEF StreamOK
<1>3. \A n \in streams[i].queues : n \in Nodes /\ routes[n] # NoRoute
  BY <1>2, Zenon DEF RunInv, NodeRuns
<1>4. ASSUME streams[i].streaming
      PROVE  /\ Cardinality(streams[i].queues) = streams[i].nrq
             /\ \A n \in Nodes : routes[n] # NoRoute => n \in streams[i].queues
  <2> DEFINE Q == streams[i].queues
             R == {n \in Nodes : routes[n] # NoRoute}
  <2>1. Cardinality(Q) >= streams[i].nrq /\ Q # {}
    BY <1>1, <1>4, Zenon DEF StreamOK
  <2>2. streams[i].nrq = Cardinality(R)
    BY <2>1, Zenon DEF RunInv, StreamRuns, RouteCount
  <2>3. Q \in SUBSET Nodes /\ R \in SUBSET Nodes /\ Q \subseteq R
    BY <1>1, <1>3, Zenon
  <2> HIDE DEF Q, R
  <2>4. /\ Cardinality(Q) \in Nat /\ Cardinality(R) \in Nat
        /\ Cardinality(Q) <= Cardinality(R)
    BY <2>3, Zenon DEF Counting
  <2>5. ASSUME NEW n \in R PROVE n \in Q
    <3>1. Q \cup {n} \in SUBSET R /\ n \in Nodes
      BY <2>3, <2>5, Zenon
    <3>2. Cardinality(Q \cup {n}) <= Cardinality(R)
      BY <2>3, <3>1, Zenon DEF Counting
    <3>3. n \notin Q => Cardinality(Q \cup {n}) = Cardinality(Q) + 1
      BY <2>3, <3>1, Zenon DEF Counting
    <3> QED  BY <2>1, <2>2, <2>4, <3>2, <3>3
  <2>6. Cardinality(Q) = streams[i].nrq
    BY <2>1, <2>2, <2>4
  <2> QED  BY <2>5, <2>6, Zenon DEF Q, R
<1> QED  BY <1>3, <1>4, Zenon

\* A node that is on, in a step that leaves formats, routes and source pads alone.
LEMMA NodesRun ==
    ASSUME RunInv, ~moved, UNCHANGED <<subVars, nodeVars, late>>, NEW n \in Nodes,
           \A m \in Nodes \ {n} : pc'[m] = pc[m] /\ av'[m] = av[m],
           \/ pc'[n] = "off"
           \/ pc[n] = "on" /\ av'[n] = av[n]
           \/ pc[n] # "off" /\ av'[n] = av[n] /\ Agrees(n)
    PROVE  \A m \in Nodes : NodeRuns(m)'
<1>1. routes' = routes /\ src' = src /\ RouteCount' = RouteCount /\ late' = late
  BY Zenon DEF RouteCount, subVars
<1>2. \A m \in Nodes : NodeRuns(m) /\ Current(m)' = Current(m)
  BY Zenon DEF RunInv, Current, nodeVars
<1>3. ASSUME NEW m \in Nodes, m # n PROVE NodeRuns(m)'
  BY <1>1, <1>2, <1>3, Zenon DEF NodeRuns
<1>4. NodeRuns(n)'
  <2>1. pc'[n] # "off" => routes'[n] # NoRoute /\ av'[n].nrq = RouteCount'
    BY <1>1, <1>2, Zenon DEF NodeRuns
  <2>2. pc'[n] # "off" /\ n \notin late' =>
           src'[n].w = Current(n)'.w /\ src'[n].h = Current(n)'.h
    BY <1>1, <1>2, Zenon DEF NodeRuns, Agrees
  <2> QED  BY <2>1, <2>2, Zenon DEF NodeRuns
<1> QED  BY <1>3, <1>4, Zenon

\* A stream none of whose own changes.
LEMMA StreamsRun ==
    ASSUME RunInv, ~moved, NEW i \in Streams, routes' = routes, late' = late,
           \A j \in Streams \ {i} :
              /\ streams'[j] = streams[j] /\ (j \in fw' => j \in fw)
              /\ \A m \in streams[j].queues : pins'[m] = pins[m]
    PROVE  \A j \in Streams \ {i} : StreamRuns(j)'
<1>1. RouteCount' = RouteCount
  BY Zenon DEF RouteCount
<1>2. ASSUME NEW j \in Streams \ {i} PROVE StreamRuns(j)'
  <2>1. /\ StreamRuns(j) /\ streams'[j] = streams[j] /\ (j \in fw' => j \in fw)
        /\ \A m \in streams[j].queues : pins'[m] = pins[m]
    BY <1>2, Zenon DEF RunInv
  <2> QED  BY <1>1, <2>1, Zenon DEF StreamRuns
<1> QED  BY <1>2, Zenon

\* A queue that arrives early cannot meet a stream that runs.
LEMMA RunWaits ==
    ASSUME BufInv, Counting, RunInv, NEW n \in Nodes, NEW i, NEW st, Waits(n, i, st)
    PROVE  RunInv'
<1> SUFFICES ASSUME ~moved
             PROVE  (\A m \in Nodes : NodeRuns(m)') /\ (\A j \in Streams : StreamRuns(j)')
  BY Zenon DEF RunInv, Waits, OnStep
<1>1. /\ OnStep(n, i, st) /\ pc[n] = "piped" /\ UNCHANGED fwVars
      /\ st.streaming = streams[i].streaming
  BY Zenon DEF Waits
<1>2. /\ UNCHANGED <<subVars, nodeVars, late>> /\ av' = av /\ i \in Streams /\ i = av[n].stream
      /\ \A m \in Nodes \ {n} : pc'[m] = pc[m]
      /\ Agrees(n) /\ streams'[i] = st
      /\ \A j \in Streams \ {i} : streams'[j] = streams[j]
      /\ st.nrq = IF streams[i].queues = {} THEN av[n].nrq ELSE streams[i].nrq
  BY <1>1, Zenon DEF OnStep, Only
<1>3. \A m \in Nodes : NodeRuns(m)'
  BY <1>1, <1>2, NodesRun, Zenon
<1>4. routes' = routes /\ late' = late /\ RouteCount' = RouteCount /\ fw' = fw /\ pins' = pins
  BY <1>1, <1>2, Zenon DEF RouteCount, subVars, fwVars
<1>5. \A j \in Streams \ {i} : StreamRuns(j)'
  BY <1>2, <1>4, StreamsRun, Zenon
<1>6. i \notin fw
  <2>1. n \notin streams[i].queues
    BY <1>1, <1>2, Zenon DEF BufInv, StreamOK
  <2>2. routes[n] # NoRoute
    BY <1>2, Zenon DEF Agrees
  <2>3. ~streams[i].streaming
    BY <1>2, <2>1, <2>2, AllRouted, Zenon
  <2> QED  BY <1>2, <2>3, Zenon DEF RunInv, StreamRuns
<1>7. st.nrq = RouteCount
  BY <1>1, <1>2, Zenon DEF RunInv, NodeRuns, StreamRuns
<1>8. StreamRuns(i)'
  BY <1>2, <1>4, <1>6, <1>7, Zenon DEF StreamRuns
<1> QED  BY <1>3, <1>5, <1>8, Zenon

\* A stream that starts gets its pins from formats that agree.
LEMMA RunStarts ==
    ASSUME BufInv, Counting, RunInv, NEW n \in Nodes, NEW i, NEW st, Starts(n, i, st)
    PROVE  RunInv'
<1> SUFFICES ASSUME ~moved
             PROVE  (\A m \in Nodes : NodeRuns(m)') /\ (\A j \in Streams : StreamRuns(j)')
  BY Zenon DEF RunInv, Starts, OnStep
<1>1. /\ OnStep(n, i, st) /\ st.streaming /\ fw' = fw \cup {i}
      /\ pins' = [m \in Nodes |-> IF m \in st.queues THEN PinOf(m) ELSE pins[m]]
  BY Zenon DEF Starts, Configured
<1>2. /\ UNCHANGED <<subVars, nodeVars, late>> /\ av' = av /\ i \in Streams /\ i = av[n].stream
      /\ pc[n] \in {"piped", "on"} /\ (\A m \in Nodes \ {n} : pc'[m] = pc[m])
      /\ (pc[n] = "piped" => Agrees(n)) /\ streams'[i] = st
      /\ \A j \in Streams \ {i} : streams'[j] = streams[j]
      /\ st.queues = streams[i].queues \cup {n}
      /\ st.nrq = IF streams[i].queues = {} THEN av[n].nrq ELSE streams[i].nrq
  BY <1>1, Zenon DEF OnStep, Only
<1>3. \A m \in Nodes : NodeRuns(m)'
  BY <1>2, NodesRun, Zenon
<1>4. routes' = routes /\ late' = late /\ RouteCount' = RouteCount /\ src' = src
      /\ \A m \in Nodes : Current(m)' = Current(m)
  BY <1>2, Zenon DEF RouteCount, subVars, Current, nodeVars
<1>5. /\ \A m \in Nodes : m \in st.queues <=> pc'[m] = "on" /\ av'[m].stream = i
      /\ \A m \in Nodes, j \in Streams \ {i} :
            pc'[m] = "on" /\ av'[m].stream = j <=> pc[m] = "on" /\ av[m].stream = j
      /\ st.queues \in SUBSET Nodes
  <2>1. OnFacts(i, st)
    BY <1>1, OnStream, Zenon
  <2> QED  BY <2>1, Zenon DEF OnFacts
<1>6. \A j \in Streams \ {i} : StreamRuns(j)'
  <2>1. ASSUME NEW j \in Streams \ {i}, NEW m \in streams[j].queues PROVE pins'[m] = pins[m]
    <3>1. m \in Nodes /\ pc[m] = "on" /\ av[m].stream = j
      BY <2>1, Zenon DEF BufInv, Shape, StreamType, StreamOK
    <3>2. m \notin st.queues
      BY <1>2, <1>5, <2>1, <3>1, Zenon
    <3> QED  BY <1>1, <3>1, <3>2, Zenon
  <2> QED  BY <1>1, <1>2, <1>4, <2>1, StreamsRun, ZenonT(30)
<1>7. st.nrq = RouteCount
  BY <1>2, Zenon DEF RunInv, NodeRuns, StreamRuns
<1>8. ASSUME NEW m \in st.queues \ late PROVE PinRuns(pins'[m])
  <2>1. m \in Nodes /\ pc'[m] = "on" /\ m \notin late' /\ pins'[m] = PinOf(m)
    BY <1>1, <1>4, <1>5, <1>8, Zenon
  <2>2. src'[m].w = Current(m)'.w /\ src'[m].h = Current(m)'.h
    BY <1>3, <2>1, Zenon DEF NodeRuns
  <2>3. src[m].w = Current(m).w /\ src[m].h = Current(m).h
    BY <1>4, <2>1, <2>2, Zenon
  <2>4. PinRuns(PinOf(m))
    BY <2>3, Zenon DEF PinRuns, PinOf
  <2> QED  BY <2>1, <2>4, Zenon
<1>9. StreamRuns(i)'
  BY <1>1, <1>2, <1>4, <1>7, <1>8, Zenon DEF StreamRuns
<1> QED  BY <1>3, <1>6, <1>9, Zenon

\* A queue that stops takes its stream from the firmware.
LEMMA RunOff ==
    ASSUME BufInv, Counting, RunInv, NEW n \in Nodes, StreamOff(n)
    PROVE  RunInv'
<1>0. PICK i : i = av[n].stream
  BY Zenon
<1>1. /\ PutStep(n, i, Left(n, i)) /\ pc[n] = "on" /\ StreamOK(i)
      /\ Left(n, i).nrq = streams[i].nrq
      /\ Left(n, i).queues = streams[i].queues \ {n} /\ ~Left(n, i).streaming
      /\ \/ UNCHANGED fwVars /\ ~Stops(n, streams[i])
         \/ /\ fw' = fw \ {i} /\ \A m \in Nodes \ streams[i].queues : pins'[m] = pins[m]
  <2>1. Shape /\ NodeOK(n)
    BY Zenon DEF BufInv
  <2>2. PutStep(n, i, Left(n, i))
    BY <1>0, <2>1, Stopped, Zenon
  <2>3. StreamOK(i)
    BY <2>2, Zenon DEF PutStep, BufInv
  <2> QED  BY <1>0, <2>1, <2>2, <2>3, Stopped, Zenon
<1>2. /\ UNCHANGED <<subVars, nodeVars, late, moved>> /\ i \in Streams /\ pc'[n] = "off"
      /\ \A m \in Nodes \ {n} : pc'[m] = pc[m] /\ av'[m] = av[m]
      /\ streams'[i] = Left(n, i)
      /\ \A j \in Streams \ {i} : streams'[j] = streams[j]
  BY <1>1, Zenon DEF PutStep, Only
<1> SUFFICES ASSUME ~moved
             PROVE  (\A m \in Nodes : NodeRuns(m)') /\ (\A j \in Streams : StreamRuns(j)')
  BY <1>2, Zenon DEF RunInv
<1>3. \A m \in Nodes : NodeRuns(m)'
  BY <1>2, NodesRun, Zenon
<1>4. routes' = routes /\ late' = late /\ RouteCount' = RouteCount
  BY <1>2, Zenon DEF RouteCount, subVars
<1>5. i \notin fw'
  <2>1. CASE streams[i].streaming
    <3>1. n \in streams[i].queues
      BY <1>0, <1>1, Zenon DEF StreamOK
    <3>2. Stops(n, streams[i])
      BY <1>2, <2>1, <3>1, AllRouted, Zenon DEF Stops
    <3> QED  BY <1>1, <3>2, Zenon
  <2>2. CASE ~streams[i].streaming
    <3>1. i \notin fw
      BY <1>2, <2>2, Zenon DEF RunInv, StreamRuns
    <3> QED  BY <1>1, <3>1, Zenon DEF fwVars
  <2> QED  BY <2>1, <2>2, Zenon
<1>6. StreamRuns(i)'
  <2>1. streams[i].queues # {} => streams[i].nrq = RouteCount
    BY <1>2, Zenon DEF RunInv, StreamRuns
  <2>2. streams'[i].queues # {} => streams'[i].nrq = RouteCount'
    BY <1>1, <1>2, <1>4, <2>1, Zenon
  <2> QED  BY <1>5, <2>2, Zenon DEF StreamRuns
<1>7. \A j \in Streams \ {i} : StreamRuns(j)'
  <2>1. \A j \in Streams \ {i} : j \in fw' => j \in fw
    BY <1>1, Zenon DEF fwVars
  <2>2. ASSUME NEW j \in Streams \ {i}, NEW m \in streams[j].queues PROVE pins'[m] = pins[m]
    <3>1. m \in Nodes /\ av[m].stream = j
      BY <2>2, Zenon DEF BufInv, Shape, StreamType, StreamOK
    <3>2. m \notin streams[i].queues
      BY <1>1, <2>2, <3>1, Zenon DEF StreamOK
    <3> QED  BY <1>1, <3>1, <3>2, Zenon DEF fwVars
  <2> QED  BY <1>2, <1>4, <2>1, <2>2, StreamsRun, Zenon
<1> QED  BY <1>3, <1>6, <1>7, Zenon

\* Every step.
LEMMA RunNext ==
    ASSUME RunInv, BufInv, SubInv, Counting, [Next]_vars
    PROVE  RunInv'
BY SteadySteps, RunSub, RunSteady, RunWaits, RunStarts, RunOff, Zenon

-----------------------------------------------------------------------------
(* The hypothesis Counting: a module of the library proves it, which comes *)
(* this late because the proofs above do without.                          *)

FS == INSTANCE FiniteSetTheorems

\* The instance counts as FiniteSets does.
LEMMA SameCount ==
    \A S : (IsFiniteSet(S) <=> FS!IsFiniteSet(S)) /\ Cardinality(S) = FS!Cardinality(S)
<1>1. \A S : IsFiniteSet(S) <=> FS!IsFiniteSet(S)
  BY Zenon DEF IsFiniteSet, FS!IsFiniteSet
<1>2. \A S : Cardinality(S) = FS!Cardinality(S)
  BY Zenon DEF Cardinality, FS!Cardinality
<1> QED  BY <1>1, <1>2, Zenon

\* There are finitely many nodes.
LEMMA NodesCount == Counting
<1> SUFFICES ASSUME NEW S \in SUBSET Nodes
             PROVE  /\ Cardinality(S) \in Nat /\ (Cardinality(S) = 0 <=> S = {})
                    /\ \A n \in Nodes :
                          /\ n \notin S => Cardinality(S \cup {n}) = Cardinality(S) + 1
                          /\ n \in S => Cardinality(S \ {n}) = Cardinality(S) - 1
                    /\ \A T \in SUBSET S : Cardinality(T) <= Cardinality(S)
  BY Zenon DEF Counting
<1>1. FS!IsFiniteSet(S) /\ \A T \in SUBSET S : FS!Cardinality(T) <= FS!Cardinality(S)
  BY NodeAssumption, SameCount, FS!FS_Subset, ZenonT(30)
<1>2. /\ FS!Cardinality(S) \in Nat /\ (FS!Cardinality(S) = 0 <=> S = {})
      /\ \A n : /\ n \notin S => FS!Cardinality(S \cup {n}) = FS!Cardinality(S) + 1
                /\ n \in S => FS!Cardinality(S \ {n}) = FS!Cardinality(S) - 1
  BY <1>1, FS!FS_CardinalityType, FS!FS_EmptySet, FS!FS_AddElement, FS!FS_RemoveElement, ZenonT(30)
<1> QED  BY <1>1, <1>2, SameCount, Zenon

-----------------------------------------------------------------------------
(* The theorems.                                                           *)

\* The invariants hold initially,
LEMMA FormatsInit == Init => SubInv /\ BufInv /\ TableInv /\ RunInv
<1>1. Init => SubInv /\ BufInv
  <2>1. Init => \E r \in Routings : routes = r
    BY Zenon DEF Init
  <2> QED  BY <2>1, SubRouted, BufInit, Zenon
<1>2. ASSUME Init PROVE TableInv
  <2>1. /\ \A i \in Streams : Refs(i) = 0 /\ isr = NoStream
        /\ \A n \in Nodes : av[n].stream = NoStream
    BY <1>2, Zenon DEF Init, Refs, Off
  <2>2. \A i \in Streams : i # NoStream
    BY DEF Streams, NoStream
  <2>3. \A i \in Streams : Users(i) = {} /\ ByIsr(i) = 0
    BY <2>1, <2>2, Zenon DEF Users, ByIsr
  <2>4. \A i \in Streams : Refs(i) = Cardinality(Users(i)) + ByIsr(i)
    <3>1. {} \in SUBSET Nodes
      BY Zenon
    <3>2. Cardinality({}) = 0
      BY <3>1, NodesCount, ZenonT(30) DEF Counting
    <3> QED  BY <2>1, <2>3, <3>2
  <2>5. \A i \in Streams : ~(Refs(i) > 0)
    BY <2>1
  <2> QED  BY <2>1, <2>4, <2>5, Zenon DEF TableInv, Counted
<1>3. Init => RunInv
  <2> SUFFICES ASSUME Init PROVE RunInv
    BY Zenon
  <2>1. /\ \A n \in Nodes : pc[n] = "off"
        /\ fw = {} /\ \A i \in Streams : streams[i].queues = {}
    BY Zenon DEF Init
  <2>2. \A n \in Nodes : NodeRuns(n)
    BY <2>1, Zenon DEF NodeRuns
  <2>3. \A i \in Streams : StreamRuns(i)
    BY <2>1, Zenon DEF StreamRuns
  <2> QED  BY <2>2, <2>3, Zenon DEF RunInv
<1> QED  BY <1>1, <1>2, <1>3, Zenon

\* and every step keeps them.
LEMMA FormatsNext ==
    SubInv /\ BufInv /\ TableInv /\ RunInv /\ [Next]_vars
    => (SubInv /\ BufInv /\ TableInv /\ RunInv)'
BY SubNext, BufNext, TableNext, RunNext, NodesCount, Zenon

\* What the firmware writes into a queue that captures fits each buffer the
\* queue holds: ipu6_isys_buf_prepare compares a buffer with the format once, and
\* neither a format nor the stream's pins can change under the buffers after it,
\* except by the video S_FMT that ignores its own refusal.
THEOREM FramesFit == Spec => []PinFitsBuffer
BY FormatsInit, FormatsNext, BufInvImplies, PTL DEF Spec

\* However many nodes start and stop, and whenever the interrupt handler looks a
\* stream up, refs counts the nodes and the handler that hold the stream, a node's
\* stream is the one of its virtual channel, and no channel has two.
THEOREM TableOwned == Spec => []StreamsOwned
BY FormatsInit, FormatsNext, TableImplies, PTL DEF Spec

\* While no sub-device call comes behind the back of a STREAMON, every stream the
\* firmware runs has all its queues on, so that stop_streaming stops it before it
\* returns the buffers, and its pins have the sizes the sub-device sends.
THEOREM FirmwareRunsValidated == Spec => []RunsAsValidated
BY FormatsInit, FormatsNext, RunImplies, PTL DEF Spec

=============================================================================
