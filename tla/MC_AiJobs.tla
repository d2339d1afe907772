------------------------------ MODULE MC_AiJobs ------------------------------
(* Two questions of a page, one worker that may lose its connection and end. *)
EXTENDS AiJobs

=============================================================================
