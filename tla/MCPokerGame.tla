---------------------------- MODULE MCPokerGame ----------------------------
(* PokerGame on small sets, for TLC. *)
EXTENDS PokerGame, TLC

\* Stories, connections of a kind and cards are interchangeable.
GameSymmetry == UNION {Permutations(S) : S \in {Story, Owner, Voter, Card}}

\* Votes are cast and shown while a story can still be made; what owners do to
\* all the stories they can make is followed without them.
VotesBeforeLast ==
    Made = Story => /\ \A s \in Story : votes[s] = NoVotes
                    /\ \A v \in Voter : pc[v] = "idle"
                    /\ \A r \in Reader : rpc[r] = "session"

-----------------------------------------------------------------------------
(* What comments of the code say and a run of it need not do.  Given as the *)
(* property of this module's configuration, each has a counterexample.      *)

\* session.go:479 and session.go:588: with two owner connections voting is open
\* on a revealed story, and next_story goes on to a story that is revealed ...
NeverOpenOnRevealed == open => active # None /\ ~revealed[active]
NextIsHidden ==
    [][\A o \in Owner : pc[o] = "nextCommit" /\ pc'[o] = "idle" /\ active' # active
         => ~revealed'[active']]_vars

\* ... and session.go:397: two stories have the same sort_order.
NeverSameOrder == \A s, t \in Made : s # t => order[s] # order[t]

\* session.go:370: nobody's vote on a story changes once it is revealed.
RevealedVotesAreFinal ==
    [][\A s \in Story : revealed[s] /\ revealed'[s] => votes'[s] = votes[s]]_vars

\* session.go:588-589: a placeholder is made only if there is no next story.
PlaceholderIfNone ==
    [][\A o \in Owner : pc[o] = "nextInsert" /\ pc'[o] = "idle" /\ seen[o] = None
         => \A s \in Made : revealed[s]]_vars
=============================================================================
