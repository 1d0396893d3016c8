------------------------ MODULE MCConsentLifecycle ------------------------
(***************************************************************************)
(* Two visitors, each with a contribution under a consent of their own;    *)
(* generated records of one or of both, one derived from the other.        *)
(***************************************************************************)
EXTENDS ConsentLifecycle

CONSTANTS a, b, a1, b1, d1, d2

MCConsents == {a, b}
MCDirect == {a1, b1}
MCDerived == {d1, d2}
MCUses == {"indexing", "public_retrieval"}
MCAudiences == {"public", "researcher"}
MCTerms ==
    [c \in MCConsents |->
       IF c = a
       THEN [subject |-> "s1", purpose |-> "score", cls |-> 0, decided |-> 0,
             until |-> 3, redact |-> FALSE,
             uses |-> {"derived_processing", "indexing", "public_retrieval",
                        "subject_export"},
             audiences |-> MCAudiences]
       ELSE [subject |-> "s2", purpose |-> "score", cls |-> 1, decided |-> 0,
             until |-> 2, redact |-> TRUE,
             uses |-> {"derived_processing", "indexing"},
             audiences |-> {"researcher"}]]
MCRequest ==
    [p \in MCDirect |->
       IF p = a1
       THEN [consent |-> a, cls |-> 0, days |-> 3,
             uses |-> {"derived_processing", "indexing", "public_retrieval"},
             audiences |-> MCAudiences]
       ELSE [consent |-> b, cls |-> 1, days |-> 2,
             uses |-> {"derived_processing", "indexing"},
             audiences |-> {"researcher"}]]
MCHoldScopes == {{a1, d1}}
=============================================================================
