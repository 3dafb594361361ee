---------------------------- MODULE BlockClaims ----------------------------
(***************************************************************************)
(* Three statements that the documentation and the messages of block-sleep *)
(* make about a block, and that the code does not keep in every run of     *)
(* BlockDaemon.                                                            *)
(***************************************************************************)
EXTENDS BlockDaemon

\* README.md:417: "When the daemon exits (for any reason), the FIFO closes, cat
\* gets EOF, and systemd-inhibit releases the lock."  The five seconds may be
\* over before systemd-inhibit has started cat; fatalf then leaves the FIFO
\* behind, and cat opens it and waits for a writer for good.
AnyExitReleases == (daemon = "gone" /\ Held) ~> ~Held

\* README.md:397: "the block naturally expires after 30 minutes", having been
\* extended now and then.  When a Reload comes before the goroutine of the run
\* before has read m.timer, two goroutines receive from the new timer; if the
\* old one gets the value, the channel the loop waits on is never closed.
BlockExpires == daemon = "loop" ~> daemon = "gone"

\* daemon.go:172: "Failed to start sleep block."  The daemon may publish its PID
\* between the client's last poll and the client's exit, and hold the block with
\* no state file that status or stop could find it by.
FailedStartHoldsNothing == client = "failed" => daemon # "loop"

=============================================================================
