---------------------------- MODULE IsysFormats -----------------------------
(***************************************************************************)
(* What is configured before a frame flows: the routes, formats and crops  *)
(* of a CSI-2 sub-device, the format and the videobuf2 memory of the video *)
(* nodes behind it, the table of firmware streams the nodes share, and the *)
(* pins that tell the firmware what to write into which buffer.            *)
(* (ipu6-isys-subdev.c, ipu6-isys-csi2.c, the format half of               *)
(* ipu6-isys-video.c, queue set-up and validation of ipu6-isys-queue.c.)   *)
(*                                                                         *)
(* Node n is linked to source pad n of the sub-device.  Processes: the     *)
(* sub-device's user (every call runs under the state lock), one user per  *)
(* node (av->mutex), the interrupt handler.  A STREAMON is three steps,    *)
(* because it drops the state lock between reading the route, validating   *)
(* the link and joining the stream.  What may fail inside the firmware     *)
(* when it starts a stream is IsysStream's subject: here it just fails.    *)
(*                                                                         *)
(* A definition marked MISTAKE is a wrong variant of the one below it, kept*)
(* to show that the properties notice such a mistake.                      *)
(***************************************************************************)
EXTENDS Integers, FiniteSets

CONSTANTS
    Nodes,        \* video nodes
    Sinks,        \* streams of the sensor on sink pad 0
    VcOf,         \* their virtual channels, from the frame descriptor
    MaxStreams,   \* IPU4_ISYS_MAX_STREAMS
    Routings,     \* the routings a user sets: functions from Nodes
    Codes, Code0, \* supported_codes, and its first entry
    SubFormats,   \* formats a user asks each stream of the sink pad for
    Selections,   \* and the selections, first line and height, on each source pad
    Pfmts,        \* ipu6_isys_pfmts
    Default,      \* the entry for each buffer type that comes first in it
    NodeFormats,  \* formats the user of each video node asks for
    UsedTypes,    \* the buffer types they use
    Sizes,        \* and the plane sizes they ask CREATE_BUFS for
    MinWidth, MaxWidth, MinHeight, MaxHeight,
    U32,          \* numbers a u32 can hold
    Initial,      \* formats ipu6_isys_video_init tries, for each buffer type
    RouteFormat,  \* what subdev_set_routing stores
    Overshoot     \* isys_dma_overshoot

NoRoute == -1
Types == {"video", "meta"}
Streams == 1..MaxStreams      \* firmware handles, counted from one
NoStream == 0

Formats == [w : Nat, h : Nat, code : Codes]
PixFormats == [pf : Pfmts, w : Nat, h : Nat, bpl : Nat, size : Nat]
NoCrop == [top |-> 0, w |-> 0, h |-> 0]
NoPin == [inw |-> 0, inh |-> 0, w |-> 0, h |-> 0, bpl |-> 0]
\* A node that is off: the next STREAMON writes these before it reads them.
Off == [vc |-> 0, stream |-> NoStream, nrq |-> 0]

VARIABLES
    \* active state of the sub-device
    routes,       \* the sink stream each source pad is fed from, or NoRoute
    sink, src,    \* format of each sink stream and of each source pad
    crop,         \* crop rectangle of each source pad
    \* struct ipu6_isys_video and its vb2_queue
    type,         \* vbq.type
    fmt,          \* pix_fmt and meta_fmt
    alloc,        \* plane sizes of the allocated buffers
    queued,       \* those the driver owns
    pc,           \* how far a STREAMON has come
    av,           \* vc, stream, and the nr_queues a STREAMON found
    \* struct ipu6_isys
    streams,      \* streams and streams_ref_count
    isr,          \* stream the interrupt handler has a reference to
    \* the firmware
    pins,         \* the pin configuration of each node
    fw,           \* streams that are open and running
    \* history
    late,         \* nodes whose format was replaced while it had buffers
    moved         \* the sub-device was reconfigured after a node looked at it

subVars == <<routes, sink, src, crop>>
nodeVars == <<type, fmt, alloc>>
callVars == <<pc, av>>
fwVars == <<pins, fw>>
vars == <<subVars, nodeVars, queued, callVars, streams, isr, fwVars, late, moved>>

-----------------------------------------------------------------------------
(* Arithmetic.                                                             *)

clamp(v, lo, hi) == IF v >= hi THEN hi ELSE IF v <= lo THEN lo ELSE v
Larger(a, b) == IF a >= b THEN a ELSE b
ALIGN(x, a) == ((x + a - 1) \div a) * a
DIV_ROUND_UP(x, d) == (x + d - 1) \div d

\* A code is its Bayer order, 0 to 3 as in code_map (RGGB, GRBG, GBRG, BGGR) or
\* 4 for any other format, and its depth.
is_bayer_format(code) == code[1] \in 0..3
Xor2(a, b) == (2 * (((a \div 2) + (b \div 2)) % 2)) + ((a + b) % 2)
\* MISTAKE
bayer_order_kept(code, x, y) == code
convert_bayer_order(code, x, y) == <<Xor2(code[1], (2 * (y % 2)) + (x % 2)), code[2]>>

\* ipu6_isys_try_fmt_cap.  A format that is not of the buffer type is replaced
\* by the first one that is.
BytesPerLine(pf, w) ==
    ALIGN(IF pf.bpp # pf.packed THEN w * DIV_ROUND_UP(pf.bpp, 8)
          ELSE DIV_ROUND_UP(w * pf.bpp, 8), 64)
get_isys_format(pf, t) == IF pf.meta = (t = "meta") THEN pf ELSE Default[t]
try_fmt_cap(t, want) ==
    LET pf == get_isys_format(want.pf, t)
        w == clamp(want.w, MinWidth, MaxWidth)
        h == clamp(want.h, MinHeight, MaxHeight)
        bpl == BytesPerLine(pf, w)
    IN [pf |-> pf, w |-> w, h |-> h, bpl |-> bpl,
        size |-> bpl * h + Larger(bpl, Overshoot)]

\* The tables and requests the code can meet.  MIN_WIDTH is 2, MIN_HEIGHT 1.
ASSUME SubdevAssumption ==
    /\ Sinks \subseteq Nat
    /\ Codes \subseteq (0..4) \X Nat /\ Code0 \in Codes
    /\ \A c \in Codes : \A y \in 0..1 :
          is_bayer_format(c) => convert_bayer_order(c, 0, y) \in Codes
    /\ RouteFormat \in Formats /\ RouteFormat.w > 0
    /\ MinWidth \in Nat \ {0} /\ MaxWidth \in Nat \ {0}
    /\ MinHeight \in Nat \ {0} /\ MaxHeight \in Nat
    /\ U32 \in Nat \ {0}
    /\ \A s \in Sinks : \A f \in SubFormats[s] : f.w \in Nat /\ f.h \in Nat
    /\ \A n \in Nodes : Selections[n] \subseteq Nat \X Nat
    /\ Routings \subseteq [Nodes -> Sinks \cup {NoRoute}] /\ VcOf \in [Sinks -> Nat]
ASSUME NodeAssumption ==
    /\ IsFiniteSet(Nodes) /\ MaxStreams \in Nat /\ Overshoot \in Nat
    /\ \A f \in Pfmts : f.bpp \in Nat /\ f.packed \in Nat
    /\ Default \in [Types -> Pfmts] /\ Initial \in [Types -> PixFormats]
    /\ \A n \in Nodes : /\ NodeFormats[n] \subseteq PixFormats
                        /\ Sizes[n] \subseteq Nat /\ UsedTypes[n] \subseteq Types

\* ipu6_isys_get_format, _frame_width, _frame_height, _bytes_per_line, _data_size
Current(n) == fmt[n][type[n]]

\* What the hardware may write through a pin: the image, and up to a line or
\* the allocation unit behind it.
Written(p) == p.bpl * p.h + Larger(p.bpl, Overshoot)

\* vb2_is_busy
Busy(n) == alloc[n] # {}

\* No call is inside av->mutex.
Unlocked(n) == pc[n] \in {"off", "on"}

-----------------------------------------------------------------------------
(* The sub-device.                                                         *)

\* A node that has begun a STREAMON has looked at the sub-device.
Watched == \E n \in Nodes : pc[n] # "off"
Touch == moved' = (moved \/ Watched)
PadOf(s) == {n \in Nodes : routes[n] = s}

\* ipu6_isys_subdev_set_fmt on the sink pad; a source pad only reports.
FullCrop(c, f) == [top |-> 0, w |-> f.w, h |-> f.h]
SetFmt(s, want) ==
    LET f == [w |-> clamp(want.w, MinWidth, MaxWidth),
              h |-> clamp(want.h, MinHeight, MaxHeight),
              code |-> IF want.code \in Codes THEN want.code ELSE Code0]
    IN /\ PadOf(s) # {}
       /\ sink' = [sink EXCEPT ![s] = f]
       /\ src' = [n \in Nodes |-> IF routes[n] = s THEN f ELSE src[n]]
       /\ crop' = [n \in Nodes |-> IF routes[n] = s THEN FullCrop(crop[n], f) ELSE crop[n]]
       /\ Touch
       /\ UNCHANGED <<routes, nodeVars, queued, callVars, streams, isr, fwVars, late>>

\* ipu6_isys_csi2_set_sel: nothing bounds the first line, and the lines left
\* below it are counted in 32 bits.
set_sel(f, top, h) ==
    LET t == IF is_bayer_format(f.code) THEN top ELSE top - (top % 2)
    IN [top |-> t, w |-> f.w, h |-> clamp(h - (h % 2), MinHeight, (f.h - t) % U32)]
SetSel(n, top, h) ==
    LET f == sink[routes[n]]
        c == set_sel(f, top, h)
    IN /\ routes[n] # NoRoute
       /\ crop' = [crop EXCEPT ![n] = c]
       /\ src' = [src EXCEPT ![n] =
                    [w |-> c.w, h |-> c.h,
                     code |-> IF is_bayer_format(f.code)
                              THEN convert_bayer_order(f.code, 0, c.top)
                              ELSE src[n].code]]
       /\ Touch
       /\ UNCHANGED <<routes, sink, nodeVars, queued, callVars, streams, isr,
                      fwVars, late>>

\* subdev_set_routing: streams are fed one to one, every format is reset and the
\* crop rectangles of the new streams are zero.
OneToOne(r) == \A m, n \in Nodes : r[m] = r[n] /\ r[m] # NoRoute => m = n
Routed(r) ==
    /\ routes' = r
    /\ sink' = [s \in Sinks |-> RouteFormat]
    /\ src' = [n \in Nodes |-> RouteFormat]
    /\ crop' = [n \in Nodes |-> NoCrop]
SetRouting(r) ==
    /\ OneToOne(r)
    /\ Routed(r)
    /\ Touch
    /\ UNCHANGED <<nodeVars, queued, callVars, streams, isr, fwVars, late>>

-----------------------------------------------------------------------------
(* Formats and buffers of a video node.                                    *)

\* ipu6_isys_vidioc_s_fmt_vid_cap ignores that try_fmt answers -EBUSY, and then
\* stores what it was given.
SFmtVideo(n, want) ==
    /\ Unlocked(n)
    /\ fmt' = [fmt EXCEPT ![n]["video"] =
                 IF Busy(n) THEN want ELSE try_fmt_cap("video", want)]
    /\ late' = IF Busy(n) THEN late \cup {n} ELSE late \ {n}
    /\ UNCHANGED <<subVars, type, alloc, queued, callVars, streams, isr, fwVars, moved>>

\* MISTAKE
FreeForMetaAlways(n) == TRUE
FreeForMeta(n) == ~Busy(n)
SFmtMeta(n, want) ==
    /\ Unlocked(n) /\ FreeForMeta(n)
    /\ fmt' = [fmt EXCEPT ![n]["meta"] = try_fmt_cap("meta", want)]
    /\ UNCHANGED <<subVars, type, alloc, queued, callVars, streams, isr, fwVars,
                   late, moved>>

\* REQBUFS: vb2_queue_change_type lets an allocated queue keep its type only,
\* the old buffers go, and ipu6_isys_queue_setup says how large the new ones are.
ReqBufs(n, t) ==
    /\ pc[n] = "off"
    /\ t = type[n] \/ ~Busy(n)
    /\ fmt[n][t].size > 0
    /\ type' = [type EXCEPT ![n] = t]
    /\ alloc' = [alloc EXCEPT ![n] = {fmt[n][t].size}]
    /\ queued' = [queued EXCEPT ![n] = {}]
    /\ UNCHANGED <<subVars, fmt, callVars, streams, isr, fwVars, late, moved>>

\* REQBUFS of no buffers, or close.
FreeBufs(n) ==
    /\ pc[n] = "off"
    /\ alloc' = [alloc EXCEPT ![n] = {}]
    /\ queued' = [queued EXCEPT ![n] = {}]
    /\ UNCHANGED <<subVars, type, fmt, callVars, streams, isr, fwVars, late, moved>>

\* CREATE_BUFS adds buffers of a size of the user's choice, streaming or not.
LargeEnough(n, t, size) == size >= fmt[n][t].size
CreateBufs(n, t, size) ==
    /\ Unlocked(n)
    /\ t = type[n] \/ ~Busy(n)
    /\ LargeEnough(n, t, size)
    /\ type' = [type EXCEPT ![n] = t]
    /\ alloc' = [alloc EXCEPT ![n] = @ \cup {size}]
    /\ UNCHANGED <<subVars, fmt, queued, callVars, streams, isr, fwVars, late, moved>>

-----------------------------------------------------------------------------
(* The stream table.                                                       *)

Refs(i) == streams[i].refs
\* ipu6_isys_get_stream: the stream of this virtual channel, or else the first
\* one nobody refers to.  (One sub-device: stream->asd is always the same.)
\* MISTAKE
MatchingIdle(vc) == {i \in Streams : Refs(i) = 0 /\ streams[i].vc = vc}
Matching(vc) == {i \in Streams : Refs(i) > 0 /\ streams[i].vc = vc}
Unused == {i \in Streams : Refs(i) = 0}
First(set) == {i \in set : \A j \in set : i <= j}
StreamFor(vc) == First(IF Matching(vc) # {} THEN Matching(vc) ELSE Unused)
GetStream(i, vc) ==
    streams' = [streams EXCEPT ![i].refs = @ + 1, ![i].vc = vc]

\* ipu6_isys_put_stream
Put(i) == [streams[i] EXCEPT !.refs = IF @ > 0 THEN @ - 1 ELSE @]

\* The interrupt handler looks a stream up, by the handle in a response or by
\* the receiver's port and channel, and drops its reference when it is done.
IsrQuery(i) ==
    /\ isr = NoStream /\ Refs(i) > 0
    /\ isr' = i
    /\ streams' = [streams EXCEPT ![i].refs = @ + 1]
    /\ UNCHANGED <<subVars, nodeVars, queued, callVars, fwVars, late, moved>>
IsrPut ==
    /\ isr # NoStream
    /\ isr' = NoStream
    /\ streams' = [streams EXCEPT ![isr] = Put(isr)]
    /\ UNCHANGED <<subVars, nodeVars, queued, callVars, fwVars, late, moved>>

-----------------------------------------------------------------------------
(* STREAMON, STREAMOFF and the buffers in between.                         *)

\* ipu6_isys_setup_video up to the unlock: the route and the number of queues.
SetupVideo(n) ==
    /\ pc[n] = "off" /\ queued[n] # {}
    /\ routes[n] # NoRoute
    /\ pc' = [pc EXCEPT ![n] = "routed"]
    /\ av' = [av EXCEPT ![n] =
                [vc |-> VcOf[routes[n]], stream |-> NoStream,
                 nrq |-> Cardinality({m \in Nodes : routes[m] # NoRoute})]]
    /\ UNCHANGED <<subVars, nodeVars, queued, streams, isr, fwVars, late, moved>>

\* link_validate and ipu6_isys_link_fmt_validate compare the same things.
Agrees(n) ==
    /\ routes[n] # NoRoute
    /\ src[n].w = Current(n).w /\ src[n].h = Current(n).h
    /\ src[n].code = Current(n).pf.code

\* The rest of setup_video: the pipeline starts, which validates the link, and
\* the node gets its stream.  The media core may refuse for other reasons too.
PipelineStarted(n) ==
    /\ pc[n] = "routed"
    /\ Agrees(n)
    /\ \E i \in StreamFor(av[n].vc) :
          /\ av' = [av EXCEPT ![n].stream = i]
          /\ GetStream(i, av[n].vc)
    /\ pc' = [pc EXCEPT ![n] = "piped"]
    /\ UNCHANGED <<subVars, nodeVars, queued, isr, fwVars, late, moved>>
PipelineRefused(n) ==
    /\ pc[n] = "routed"
    /\ pc' = [pc EXCEPT ![n] = "off"]
    /\ av' = [av EXCEPT ![n] = Off]
    /\ UNCHANGED <<subVars, nodeVars, queued, streams, isr, fwVars, late, moved>>

\* ipu6_isys_fw_pin_cfg of the queues of the stream that starts.
PinOf(n) == [inw |-> src[n].w, inh |-> src[n].h, w |-> Current(n).w,
             h |-> Current(n).h, bpl |-> Current(n).bpl]
Configured(qs) == pins' = [n \in Nodes |-> IF n \in qs THEN PinOf(n) ELSE pins[n]]

\* start_streaming from there: the first queue to arrive prepares the stream,
\* and the stream starts once each of its queues is on and has a buffer.
Joined(n) ==
    LET st == streams[av[n].stream]
    IN [st EXCEPT !.nrq = IF st.queues = {} THEN av[n].nrq ELSE @,
                  !.queues = @ \cup {n}]
Ready(st, q) == Cardinality(st.queues) = st.nrq /\ \A n \in st.queues : q[n] # {}
Started(i, st) ==
    /\ \A n \in st.queues : routes[n] # NoRoute
    /\ fw' = fw \cup {i}
    /\ Configured(st.queues)
    /\ streams' = [streams EXCEPT ![i] = [st EXCEPT !.streaming = TRUE]]

StreamOnWaits(n) ==
    /\ pc[n] = "piped" /\ Agrees(n)
    /\ ~Ready(Joined(n), queued)
    /\ streams' = [streams EXCEPT ![av[n].stream] = Joined(n)]
    /\ pc' = [pc EXCEPT ![n] = "on"]
    /\ UNCHANGED <<subVars, nodeVars, queued, av, isr, fwVars, late, moved>>
StreamOnStarts(n) ==
    /\ pc[n] = "piped" /\ Agrees(n)
    /\ Ready(Joined(n), queued)
    /\ Started(av[n].stream, Joined(n))
    /\ pc' = [pc EXCEPT ![n] = "on"]
    /\ UNCHANGED <<subVars, nodeVars, queued, av, isr, late, moved>>
\* The formats differ by now, ipu6_isys_fw_get fails, or the stream does not start.
StreamOnFails(n) ==
    /\ pc[n] = "piped"
    /\ pc' = [pc EXCEPT ![n] = "off"]
    /\ av' = [av EXCEPT ![n] = Off]
    /\ streams' = [streams EXCEPT ![av[n].stream] = Put(av[n].stream)]
    /\ UNCHANGED <<subVars, nodeVars, queued, isr, fwVars, late, moved>>

\* buf_prepare, then buf_queue: what the buffer was waited for may start now.
Fits(n, size) == Current(n).size <= size
Queued(n, size) == [queued EXCEPT ![n] = @ \cup {size}]
QBuf(n, size) ==
    /\ Unlocked(n)
    /\ size \in alloc[n] /\ Fits(n, size)
    /\ queued' = Queued(n, size)
    /\ UNCHANGED <<subVars, nodeVars, callVars, streams, isr, fwVars, late, moved>>
QBufStarts(n, size) ==
    /\ pc[n] = "on"
    /\ size \in alloc[n] /\ Fits(n, size)
    /\ queued' = Queued(n, size)
    /\ LET i == av[n].stream
       IN /\ ~streams[i].streaming /\ Ready(streams[i], queued')
          /\ Started(i, streams[i])
    /\ UNCHANGED <<subVars, nodeVars, callVars, isr, late, moved>>

\* The last buffer of this size is done, or returned because no start succeeded.
Done(n, size) ==
    /\ pc[n] = "on" /\ size \in queued[n]
    /\ queued' = [queued EXCEPT ![n] = @ \ {size}]
    /\ UNCHANGED <<subVars, nodeVars, callVars, streams, isr, fwVars, late, moved>>

\* stop_streaming.  Without a route ipu6_isys_video_set_streaming gives up
\* before it reaches the firmware.
\* MISTAKE
StopsLast(n, st) == st.queues = {n} /\ st.streaming /\ routes[n] # NoRoute
Stops(n, st) ==
    Cardinality(st.queues) = st.nrq /\ st.streaming /\ routes[n] # NoRoute
StreamOff(n) ==
    LET i == av[n].stream
    IN /\ pc[n] = "on"
       /\ IF Stops(n, streams[i])
          THEN /\ fw' = fw \ {i}
               /\ pins' = [m \in Nodes |-> IF m \in streams[i].queues THEN NoPin ELSE pins[m]]
          ELSE UNCHANGED fwVars
       /\ streams' = [streams EXCEPT ![i] =
                        [Put(i) EXCEPT !.queues = @ \ {n}, !.streaming = FALSE]]
       /\ av' = [av EXCEPT ![n] = Off]
       /\ pc' = [pc EXCEPT ![n] = "off"]
       /\ queued' = [queued EXCEPT ![n] = {}]
       /\ UNCHANGED <<subVars, nodeVars, isr, late, moved>>

-----------------------------------------------------------------------------
\* ipu6_isys_subdev_init_cfg, ipu6_isys_video_init and ipu6_isys_queue_init,
\* isys_stream_init.
Init ==
    /\ routes \in Routings
    /\ Cardinality({n \in Nodes : routes[n] # NoRoute}) = 1
    /\ sink = [s \in Sinks |-> RouteFormat]
    /\ src = [n \in Nodes |-> RouteFormat]
    /\ crop = [n \in Nodes |-> NoCrop]
    /\ type = [n \in Nodes |-> "video"]
    /\ fmt = [n \in Nodes |-> [t \in Types |-> try_fmt_cap(t, Initial[t])]]
    /\ alloc = [n \in Nodes |-> {}] /\ queued = [n \in Nodes |-> {}]
    /\ pc = [n \in Nodes |-> "off"]
    /\ av = [n \in Nodes |-> Off]
    /\ streams = [i \in Streams |-> [refs |-> 0, vc |-> 0, nrq |-> 0,
                                     streaming |-> FALSE, queues |-> {}]]
    /\ isr = NoStream
    /\ pins = [n \in Nodes |-> NoPin]
    /\ fw = {} /\ late = {} /\ moved = FALSE

Next ==
    \/ \E s \in Sinks : \E f \in SubFormats[s] : SetFmt(s, f)
    \/ \E n \in Nodes : \E r \in Selections[n] : SetSel(n, r[1], r[2])
    \/ \E r \in Routings : SetRouting(r)
    \/ \E i \in Streams : IsrQuery(i)
    \/ IsrPut
    \/ \E n \in Nodes :
          \/ \E f \in NodeFormats[n] : SFmtVideo(n, f)
          \/ \E f \in NodeFormats[n] : SFmtMeta(n, f)
          \/ \E t \in UsedTypes[n] : ReqBufs(n, t)
          \/ FreeBufs(n)
          \/ \E t \in UsedTypes[n], size \in Sizes[n] : CreateBufs(n, t, size)
          \/ SetupVideo(n)
          \/ PipelineStarted(n)
          \/ PipelineRefused(n)
          \/ StreamOnWaits(n)
          \/ StreamOnStarts(n)
          \/ StreamOnFails(n)
          \/ \E size \in alloc[n] : QBuf(n, size)
          \/ \E size \in alloc[n] : QBufStarts(n, size)
          \/ \E size \in queued[n] : Done(n, size)
          \/ StreamOff(n)

Spec == Init /\ [][Next]_vars

-----------------------------------------------------------------------------
\* The colour filter of each Bayer order: the first two pixels of the first two
\* lines.
Filter == << <<"R", "G", "G", "B">>, <<"G", "R", "B", "G">>,
             <<"G", "B", "R", "G">>, <<"B", "G", "G", "R">> >>
Colour(code, x, y) == Filter[1 + code[1]][1 + (x % 2) + (2 * (y % 2))]

\* Source format s is sink format f cropped to c: for a Bayer format its code has
\* at each pixel the colour f has at that pixel of the uncropped image.
Follows(f, c, s) ==
    /\ s.w = f.w
    /\ c = NoCrop => s = f
    /\ c # NoCrop => c.w = f.w /\ s.h = c.h
    /\ s.code[2] = f.code[2]
    /\ IF is_bayer_format(f.code)
       THEN \A x, y \in 0..1 : Colour(s.code, x, y) = Colour(f.code, x, y + c.top)
       ELSE s.code = f.code

\* ipu6_isys_subdev_set_fmt says "No transcoding, source and sink formats must
\* match": after any sequence of format, selection and routing calls a routed
\* source pad has its sink's format, cropped to the selected lines, and the code
\* that goes with them.
SourceFollowsSink ==
    \A n \in Nodes : routes[n] # NoRoute => Follows(sink[routes[n]], crop[n], src[n])

\* The sizes a node, its buffers and the firmware are told at different times
\* still belong together while frames are captured, whatever is reconfigured
\* meanwhile: what the hardware may write through the pin ipu6_isys_fw_pin_cfg
\* set up fits each buffer the node has queued.  (Unless its format was set
\* while it had buffers: see SFmtVideo.)
Capturing(st) == st.streaming /\ Cardinality(st.queues) = st.nrq
PinFitsBuffer ==
    \A i \in Streams : Capturing(streams[i]) =>
        \A n \in streams[i].queues \ late :
            \A size \in queued[n] : Written(pins[n]) <= size

\* The reference count of a stream is the number of nodes that use it plus the
\* interrupt handler's, nodes of one virtual channel share a stream and no
\* others do, so the stream an answer is looked up by is not another's.
StreamsOwned ==
    /\ \A i \in Streams :
          Refs(i) = Cardinality({n \in Nodes : av[n].stream = i})
                    + (IF isr = i THEN 1 ELSE 0)
    /\ \A n \in Nodes : av[n].stream # NoStream => streams[av[n].stream].vc = av[n].vc
    /\ \A i, j \in Streams : Refs(i) > 0 /\ Refs(j) > 0 /\ streams[i].vc = streams[j].vc
                             => i = j

\* Unless the sub-device is reconfigured behind the back of a STREAMON, the
\* firmware runs only streams whose queues are all on - so stop_streaming ends
\* the capture before it returns the buffers - and each pin has the size the
\* sub-device sends.
RunsAsValidated ==
    ~moved => \A i \in fw :
        /\ streams[i].streaming
        /\ \A n \in streams[i].queues \ late :
              pins[n].inw = pins[n].w /\ pins[n].inh = pins[n].h
=============================================================================
