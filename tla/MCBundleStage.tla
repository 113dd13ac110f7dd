--------------------------- MODULE MCBundleStage ----------------------------
(***************************************************************************)
(* A small instance of BundleStage: the container cannot hold all bundles, *)
(* the window cannot either, and one bundle cannot be locked.              *)
(***************************************************************************)
EXTENDS BundleStage

MCSize == <<1, 2, 1, 1, 2>>
=============================================================================
