------------------------- MODULE MCAttentionDigest -------------------------
\* Model checking of AttentionDigest: one scheduler run and one settings call at a
\* time.  Concerns that do not meet in a run are kept apart, since their product is
\* too large to check (bounds): the owner changes number only where no push is on,
\* and an item is dealt with only where it is; a second item is made, items are seen,
\* a request is read and a run stops between an item's push and its mark, once in
\* all, only where push is on and no digest ever was.
EXTENDS AttentionDigest, TLC

CONSTANTS FirstPhone,      \* the number the owner has at first
          First, Second    \* the items, in the order they are made

MCKindOf == First :> "request" @@ Second :> "request"
MCMixedKinds == First :> "request" @@ Second :> "proof"   \* for MCAlertCap.cfg
MCCreatedAt == First :> 1 @@ Second :> 2
MCTakeOf == [kind \in {"issue", "request", "proof"} |-> 1]

NoDigest ==
    /\ ~on /\ digestConsent = {} /\ \A d \in Days : row[d] = "NONE"
    /\ \A r \in Runs : run[r].phone = NoPhone
    /\ \A c \in Calls : call[c] = NoCall
PushAlone == push /\ NoDigest
Apart ==
    /\ push \/ item[First] # "out"
    /\ \/ PushAlone
       \/ /\ item[Second] = "none" /\ item[First] # "open"
          /\ itemsSeen = {} /\ undone[First] = 0
    /\ undone[First] = 0 \/ undone[Second] = 0

MCInit == DigestInit /\ ownerPhone = FirstPhone
MCNext == DigestNext /\ (push => UNCHANGED ownerPhone) /\ Apart'
MCSpec == MCInit /\ [][MCNext]_digestVars /\ DigestFairness
=============================================================================
