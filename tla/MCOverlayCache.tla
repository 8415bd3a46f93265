--------------------------- MODULE MCOverlayCache ---------------------------
(* The runs of OverlayCache: r1 reads through the cache, r2 asks for a fresh     *)
(* overlay.                                                                    *)
EXTENDS OverlayCache
CONSTANTS r1, r2
=============================================================================
