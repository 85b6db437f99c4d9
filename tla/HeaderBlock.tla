---------------------------- MODULE HeaderBlock ----------------------------
(***************************************************************************)
(* Header blocks, as header.go merges them and client.go lays them out for *)
(* the wire.                                                               *)
(*                                                                         *)
(* A header is a sequence of fields [name, value], as tlsforge.Header is;  *)
(* names are compared without case, so a name stands for all its           *)
(* spellings.  A layout is what the transport is given: the order it is    *)
(* told to write in and the values of each name.                           *)
(***************************************************************************)
EXTENDS Integers, Sequences, SequencesExt

\* The elements of s that pass the test, in their order.
Only(s, Test(_)) == FlattenSeq([i \in DOMAIN s |-> IF Test(s[i]) THEN <<s[i]>> ELSE <<>>])

NamesOf(h) == [i \in DOMAIN h |-> h[i].name]
Has(h, n) == \E i \in DOMAIN h : h[i].name = n
Fields(h, n) == Only(h, LAMBDA f : f.name = n)
Values(h, n) == LET own == Fields(h, n) IN [i \in DOMAIN own |-> own[i].value]

\* The field at i is the first of its name.
FirstOfName(h, i) == \A j \in 1..(i - 1) : h[j].name # h[i].name
\* The names of h, each where it comes first.
Distinct(h) == FlattenSeq([i \in DOMAIN h |-> IF FirstOfName(h, i) THEN <<h[i].name>> ELSE <<>>])

\* Header.Merge: an overridden name keeps the place it has in h, all its new values there;
\* the names h does not have follow, in the order of over.
Merge(h, over) ==
    LET InPlace(i) == IF ~Has(over, h[i].name) THEN <<h[i]>>
                      ELSE IF FirstOfName(h, i) THEN Fields(over, h[i].name) ELSE <<>>
        Behind(i)  == IF FirstOfName(over, i) /\ ~Has(h, over[i].name)
                      THEN Fields(over, over[i].name) ELSE <<>>
    IN FlattenSeq([i \in DOMAIN h |-> InPlace(i)]) \o FlattenSeq([i \in DOMAIN over |-> Behind(i)])

\* The header a daemon request's map becomes: the names of the order first, the profile's
\* order when none is given, then the rest in a fixed (sorted) order, each name once.
OrderedHeaders(map, order, profileNames) ==
    LET names   == (IF order = <<>> THEN profileNames ELSE order) \o SetToSeq(DOMAIN map)
        Take(i) == IF names[i] \in DOMAIN map /\ \A j \in 1..(i - 1) : names[j] # names[i]
                   THEN <<[name |-> names[i], value |-> map[names[i]]]>> ELSE <<>>
    IN FlattenSeq([i \in DOMAIN names |-> Take(i)])

\* profileHTTP1Headers: the shared fields under the values measured on HTTP/1.1, in the
\* order measured there; a name without a value is not sent.
HTTP1Headers(shared, http1) ==
    LET resolved == Merge(shared, http1.headers)
    IN FlattenSeq([i \in DOMAIN http1.order |->
         IF http1.order[i] = "host" THEN <<>> ELSE Fields(resolved, http1.order[i])])

-----------------------------------------------------------------------------
(* Layouts. *)

\* The values of each name, the host of the URL unless the header names another (the last).
LayoutValues(h, host) ==
    LET named == Values(h, "host")
    IN [n \in {h[i].name : i \in DOMAIN h} \cup {"host"} |->
          IF n # "host" THEN Values(h, n) ELSE IF named = <<>> THEN <<host>> ELSE <<Last(named)>>]

\* legacyHeaderLayout: host, then the names of the header.
LegacyLayout(h, host) ==
    [order  |-> <<"host">> \o Only(Distinct(h), LAMBDA n : n # "host"),
     values |-> LayoutValues(h, host)]

\* measuredHTTP1Layout: the measured names that have a value, then those not measured.
MeasuredLayout(h, measured, host) ==
    LET values == LayoutValues(h, host)
        first  == Only(measured, LAMBDA n : n \in DOMAIN values)
        rest   == Only(Distinct(h), LAMBDA n : n # "host" /\ n \notin ToSet(measured))
    IN [order  |-> first \o rest,
        values |-> [n \in ToSet(first \o rest) |-> values[n]]]

\* Mutant: what the redirect dropped is kept
RedirectLayoutReplayed(http1, original, current, host) ==
    LET now     == current.values
        changed == {n \in DOMAIN now \ {"host"} :
                      n \notin DOMAIN original.values \/ now[n] # original.values[n]}
        Value(n) == IF n = "host" THEN <<host>> ELSE IF n \in changed THEN now[n] ELSE http1.values[n]
    IN [order  |-> http1.order \o SetToSeq((changed \cup {"host"}) \ DOMAIN http1.values),
        values |-> [n \in DOMAIN http1.values \cup changed \cup {"host"} |-> Value(n)]]
\* redirectHTTP1Layout (with setHeader and deleteHeader): what the redirect dropped from
\* the shared block is dropped, what it changed or added is set, and the rest keeps the
\* value measured on HTTP/1.1.  Appended names come in a fixed (sorted) order.
RedirectLayout(http1, original, current, host) ==
    LET before  == original.values
        now     == current.values
        gone    == (DOMAIN before \ DOMAIN now) \ {"host"}
        changed == {n \in DOMAIN now \ {"host"} : n \notin DOMAIN before \/ now[n] # before[n]}
        kept    == DOMAIN http1.values \ gone
        Value(n) == IF n = "host" THEN <<host>> ELSE IF n \in changed THEN now[n] ELSE http1.values[n]
    IN [order  |-> Only(http1.order, LAMBDA n : n \notin gone)
                   \o SetToSeq((changed \cup {"host"}) \ kept),
        values |-> [n \in kept \cup changed \cup {"host"} |-> Value(n)]]

\* Mutant: only the names of the measured layout give way
ManagedByOne(a, b) == DOMAIN b.values
\* managedHeaderNames
Managed(a, b) == DOMAIN a.values \cup DOMAIN b.values

\* applyHeaderLayout: the managed names of the request give way to the layout.
ApplyLayout(target, layout, managed) ==
    [order  |-> layout.order,
     values |-> [n \in (DOMAIN target.values \ managed) \cup DOMAIN layout.values |->
                   IF n \in DOMAIN layout.values THEN layout.values[n] ELSE target.values[n]]]
=============================================================================
