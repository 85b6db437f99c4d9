----------------------------- MODULE Fingerprint -----------------------------
(***************************************************************************)
(* What two measurements are compared on, and how                          *)
(* (src/fingerprint/compare.go, http1.go, http2.go, src/measure.go).       *)
(*                                                                         *)
(* A capture is [raw, http2, http1, agent, of]: the records of the hello,  *)
(* the HTTP/2 preamble [settings, window, priorities, headerPriority,      *)
(* fields], the fields of the HTTP/1.1 request, the user agent, each None  *)
(* when it was not recorded, and, for the properties, of whom it is.       *)
(***************************************************************************)
EXTENDS ClientHello, HeaderBlock

PseudoNames == {":method", ":authority", ":scheme", ":path"}
Pseudo(fields) == SelectSeq(fields, LAMBDA f : f.name \in PseudoNames)
Regular(fields) == SelectSeq(fields, LAMBDA f : f.name \notin PseudoNames)

-----------------------------------------------------------------------------
(* The fields compared. *)

Scalar(name, value) == [name |-> name, kind |-> "scalar", values |-> <<value>>]
Ordered(name, values) == [name |-> name, kind |-> "ordered", values |-> values]
Unordered(name, values) == [name |-> name, kind |-> "set", values |-> values]

\* TLSFields: every list of the hello, and its extensions in any order.
TLSFields(hello) ==
    LET Listed(name, type) == Ordered(name, WithoutGREASE(ListIn(hello, type)))
        AsSent(name, type) == Ordered(name, ListIn(hello, type))
    IN <<Scalar("ja4", JA4(hello)),
         Ordered("cipher_suites", WithoutGREASE(hello.ciphers)),
         Unordered("extensions", WithoutGREASE(ExtensionTypes(hello))),
         Listed("supported_versions", ExtSupportedVersions),
         Listed("supported_groups", ExtSupportedGroups),
         Listed("signature_algorithms", ExtSignatureAlgorithms),
         Listed("key_share_groups", ExtKeyShare),
         AsSent("alpn", ExtALPN),
         Ordered("application_settings", ApplicationSettings(hello)),
         AsSent("ec_point_formats", ExtECPointFormats),
         AsSent("psk_key_exchange_modes", ExtPSKKeyExchangeModes),
         AsSent("compress_certificate", ExtCompressCertificate)>>

\* Akamai: the priority on HEADERS is no part of it.
Akamai(h2) == <<h2.settings, h2.window, h2.priorities, NamesOf(Pseudo(h2.fields))>>

\* HTTP2Fields: the values of the pseudo headers are the destination's.
HTTP2Fields(h2) ==
    <<Scalar("http2_akamai", Akamai(h2)),
      Ordered("http2_settings", h2.settings),
      Scalar("http2_window_update", h2.window),
      Ordered("pseudo_header_order", NamesOf(Pseudo(h2.fields))),
      Ordered("header_order", NamesOf(Regular(h2.fields))),
      Ordered("header_values", Regular(h2.fields))>>

\* HTTP1Fields: so is the value of the host, not its place.
HTTP1Fields(h1) ==
    <<Ordered("http1_header_order", NamesOf(h1)),
      Ordered("http1_header_values", SelectSeq(h1, LAMBDA f : f.name # "host"))>>

-----------------------------------------------------------------------------
(* Their differences. *)

\* subtract: what a has more of than b, counting duplicates.
Subtract(a, b) ==
    LET Copies(s, n, v) == Cardinality({i \in 1..n : s[i] = v})
        Left(i) == Copies(a, i, a[i]) > Copies(b, Len(b), a[i])
    IN FlattenSeq([i \in DOMAIN a |-> IF Left(i) THEN <<a[i]>> ELSE <<>>])

\* diffValue, diffOrdered and diffSet: when a field is no difference.
Agree(want, got) ==
    IF want.kind = "set"
    THEN Subtract(want.values, got.values) = <<>> /\ Subtract(got.values, want.values) = <<>>
    ELSE want.values = got.values

Difference(want, got) ==
    LET Beyond(a, b) == IF want.kind = "scalar" THEN <<>> ELSE Subtract(a.values, b.values)
    IN [field |-> want.name, missing |-> Beyond(want, got), extra |-> Beyond(got, want)]

\* compareFields: the differences, field by field.
CompareFields(reference, candidate) ==
    FlattenSeq([i \in DOMAIN reference |->
                  IF Agree(reference[i], candidate[i]) THEN <<>>
                  ELSE <<Difference(reference[i], candidate[i])>>])

\* Both sides recorded a protocol and differ in these, or one did not, or neither.
CompareRecorded(name, reference, candidate, differences) ==
    IF reference # None /\ candidate # None THEN differences
    ELSE IF reference = candidate THEN <<>>
         ELSE <<[field |-> name, missing |-> <<>>, extra |-> <<>>]>>

\* Compare: no report when a side has no hello that parses, else the differences.  The
\* hellos are parsed again from what was recorded of them.
Compare(browser, client) ==
    LET reference == IF browser.raw = None THEN None ELSE ParseRaw(browser.raw)
        candidate == IF client.raw = None THEN None ELSE ParseRaw(client.raw)
    IN IF reference = None \/ candidate = None THEN None
       ELSE [tls   |-> CompareFields(TLSFields(reference.hello), TLSFields(candidate.hello)),
             http2 |-> CompareRecorded("http_protocol", browser.http2, client.http2,
                         CompareFields(HTTP2Fields(browser.http2), HTTP2Fields(client.http2))),
             http1 |-> CompareRecorded("http1_capture", browser.http1, client.http1,
                         CompareFields(HTTP1Fields(browser.http1), HTTP1Fields(client.http1)))]

\* OK: no field differs.
OK(report) == report.tls = <<>> /\ report.http2 = <<>> /\ report.http1 = <<>>
=============================================================================
