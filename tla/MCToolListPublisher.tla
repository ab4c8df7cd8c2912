------------------------ MODULE MCToolListPublisher ------------------------
(***************************************************************************)
(* ToolListPublisher on a small page, against the promise it implements.    *)
(***************************************************************************)
EXTENDS ToolListPublisher

Advertisement ==
  INSTANCE ToolListAdvertisement WITH
    window <- open, advertised <- last, failing <- alarm

(* The publisher implements the advertisement promise: every step is one of *)
(* its steps or a stutter, and a settled page ends up advertised.           *)
ImplementsAdvertisement == Advertisement!Spec

=============================================================================
