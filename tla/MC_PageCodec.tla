---------------------------- MODULE MC_PageCodec ----------------------------
(***************************************************************************)
(* PageCodec at widths pos 3, ksize 2, vsize 2 (an 8-bit word).            *)
(***************************************************************************)
EXTENDS PageCodec

\* Every flags value (bucketLeafFlag or none), every pos up to one past the
\* field, and key and value sizes the callers keep within their fields.
MCFlagsIn == 0 .. 1
MCPosIn == 0 .. 2^3
MCKIn == 0 .. (2^2 - 1)
MCVIn == 0 .. (2^2 - 1)
\* Key and value sizes one past their fields as well.
MCKInOver == 0 .. 2^2
MCVInOver == 0 .. 2^2
MCPageIds == 0 .. 1
\* Every flags combination of the low five bits and one above them.
MCFlagsValues == 0 .. 32
=============================================================================
