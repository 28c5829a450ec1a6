--------------------------- MODULE MCInvitations ---------------------------
EXTENDS Invitations, TLC

\* Whether this behaviour makes one call at a time.
VARIABLE serial

MCInit == Init /\ serial \in BOOLEAN
MCNext ==
  /\ Next
  /\ UNCHANGED serial
  /\ serial => Cardinality({c \in Callers : call'[c] # Idle}) <= 1
MCSpec == MCInit /\ [][MCNext]_<<vars, serial>>

\* Two users can be invited and two calls made in any order.
Symmetry == Permutations(Users \ {Creator}) \cup Permutations(Callers)

\* docs/auth.md: reissue revokes the previous token and claim closes the
\* others.  With one call at a time, deaths of calls halfway included.
SerialLinks == serial => OneLinkWorks

\* docs/auth.md: reissue revokes the previous token and short code.  With
\* one call at a time a revoked link stays dead; a claim that has read its
\* invitation before the revocation commits after it all the same.
RevokedIsNeverClaimed ==
  [][serial =>
       \A i \in DOMAIN invitations :
         invitations[i].revoked /\ invitations[i].claimedBy = NoUser
           => invitations'[i].claimedBy = NoUser]_vars

=============================================================================
