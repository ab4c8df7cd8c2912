------------------------ MODULE MCConnectionLifecycle ------------------------
(***************************************************************************)
(* ConnectionLifecycle as it is, for the runs about one transport: what its  *)
(* start() promises when it resolves, and an attempt whose getUrl() may     *)
(* never answer. MCProvider has the lifecycle over several mounts.          *)
(***************************************************************************)
EXTENDS ConnectionLifecycle

=============================================================================
