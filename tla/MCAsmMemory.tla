---------------------------- MODULE MCAsmMemory ----------------------------
\* Longer programs about one name and the scopes it is in, and shorter ones
\* about two names, and about temporary labels, namespaces, included files and
\* the places of bytes.
EXTENDS AsmMemory

MCScopes ==
    [names |-> {"f"}, temporaries |-> {}, namespaces |-> {}, origins |-> {10},
     files |-> {"a"}, lines |-> {}, empty |-> FALSE, statements |-> 7]
MCTemporaries ==
    [names |-> {"f"}, temporaries |-> {"1"}, namespaces |-> {"n"}, origins |-> {3},
     files |-> {"a", "b"}, lines |-> {5}, empty |-> TRUE, statements |-> 5]
MCNames ==
    [names |-> {"f", "g"}, temporaries |-> {}, namespaces |-> {}, origins |-> {},
     files |-> {"a"}, lines |-> {}, empty |-> FALSE, statements |-> 5]
MCKits == {MCScopes, MCTemporaries, MCNames}
=============================================================================
