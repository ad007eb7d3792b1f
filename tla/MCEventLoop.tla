---------------------------- MODULE MCEventLoop ----------------------------
(* EventLoop for TLC: the threads together make at most MaxTotal calls, any *)
(* of them up to MaxCalls.                                                  *)
EXTENDS EventLoop, FiniteSetsExt

CONSTANT MaxTotal

TotalCalls == MapThenSumSet(LAMBDA t : calls[t], Threads)

MCNext == Next /\ TotalCalls' <= MaxTotal
MCSpec == Init /\ [][MCNext]_vars /\ Fairness
=============================================================================
