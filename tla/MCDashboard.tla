----------------------------- MODULE MCDashboard -----------------------------
(* Instances of Dashboard for TLC: the stream's thread is a third one. *)
EXTENDS Dashboard, TLC

MCThreads == {EventLoop, Main, "stream"}
Symmetry == Permutations(Clients)
=============================================================================
