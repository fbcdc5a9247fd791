---------------------------- MODULE MCIsysFormats ---------------------------
(***************************************************************************)
(* Two video nodes behind one CSI-2 receiver, and a sensor that sends two  *)
(* streams on one virtual channel.  Sizes are scaled down.                 *)
(***************************************************************************)
EXTENDS IsysFormats, TLC

\* SGRBG10 (also RouteFormat's), SBGGR10 (one line below it) and META_8
MCGrbg == <<1, 10>>
MCBggr == <<3, 10>>
MCMeta == <<4, 8>>
MCCodes == {MCGrbg, MCBggr, MCMeta}

Raw(code) == [meta |-> FALSE, code |-> code, bpp |-> 16, packed |-> 10]
MCEmbedded == [meta |-> TRUE, code |-> MCMeta, bpp |-> 8, packed |-> 8]
MCPfmts == {Raw(MCGrbg), Raw(MCBggr), MCEmbedded}
MCDefault == [video |-> Raw(MCGrbg), meta |-> MCEmbedded]

Asked(pf, w, h) == [pf |-> pf, w |-> w, h |-> h, bpl |-> 0, size |-> 0]
MCInitial == [video |-> Asked(Raw(MCGrbg), 8, 4), meta |-> Asked(MCEmbedded, 8, 1)]
MCRouteFormat == [w |-> 8, h |-> 4, code |-> MCGrbg]
MCSubFormats ==
    (0 :> {[w |-> 50, h |-> 2, code |-> MCMeta]})
    @@ (1 :> {})
MCSelections == (1 :> {<<1, 3>>}) @@ (2 :> {})

MCNodes == {1, 2}
MCSinks == {0, 1}
MCVcOf == (0 :> 0) @@ (1 :> 0)
Route(a, b) == (1 :> a) @@ (2 :> b)
MCRoutings == {Route(0, NoRoute), Route(0, 1)}
MCNodeFormats ==
    (1 :> {Asked(Raw(MCBggr), 50, 2)}) @@ (2 :> {})
MCUsedTypes == (1 :> Types) @@ (2 :> {"video"})
MCSizes == (1 :> {192}) @@ (2 :> {})
=============================================================================
