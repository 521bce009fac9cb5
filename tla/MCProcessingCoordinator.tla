----------------------- MODULE MCProcessingCoordinator -----------------------
(* Two workers race for the operations; two calls of startProcessing race  *)
(* for the preview.                                                        *)
EXTENDS ProcessingCoordinator
=============================================================================
