----------------------------- MODULE ClientHello -----------------------------
(***************************************************************************)
(* A ClientHello as the package fingerprint reads it: out of the records   *)
(* of a connection, of which only a part may have arrived                  *)
(* (src/fingerprint/clienthello.go), and into its JA4 (ja4.go, grease.go). *)
(*                                                                         *)
(* A stream is a sequence of records [type, payload].  A unit of a payload *)
(* stands for a run of bytes: the payloads joined are the type of the      *)
(* message, its length, and as many units as that says, one per field:     *)
(* version, ciphers, then one per extension [type, data].  A record has    *)
(* one unit more, its header.  The data of an extension is the list its    *)
(* body spells, empty when it spells none; a digest is what it digests.    *)
(***************************************************************************)
EXTENDS Integers, Sequences, SequencesExt, FiniteSetsExt, TLC

CONSTANTS None,          \* nothing: no hello, no capture, no profile
          MaxHandshake,  \* maxHandshakeSize
          MaxRecorded    \* maxRecordedHello

-----------------------------------------------------------------------------
(* Out of a stream. *)

\* How much of the stream the records up to i take, and the handshake they carry.
End(stream, i) == FoldLeft(LAMBDA size, r : size + 1 + Len(r.payload), 0, SubSeq(stream, 1, i))
Handshake(stream, i) == FlattenSeq([j \in 1..i |-> stream[j].payload])

\* The record i is where reading fails: not a hello, or too long for one.
Refused(stream, i) ==
    LET handshake == Handshake(stream, i)
    IN \/ stream[i].type # "handshake"
       \/ handshake # <<>> /\ handshake[1].field # "hello"
       \/ Len(handshake) > MaxHandshake

\* completeHandshake
Complete(handshake) == Len(handshake) >= 2 /\ Len(handshake) >= 2 + handshake[2].value

\* The hello a body spells, when it spells one.
HelloOf(body) ==
    IF Len(body) >= 2 /\ body[1].field = "version" /\ body[2].field = "ciphers"
       /\ \A i \in 3..Len(body) : body[i].field = "extension"
    THEN [version    |-> body[1].value,
          ciphers    |-> body[2].value,
          extensions |-> [i \in 1..(Len(body) - 2) |-> body[i + 2].value]]
    ELSE None

\* ParseClientHello (with handshakeBody) of what has arrived: the hello, with the records it
\* took, once the record that completes it is whole.  None is any of its errors.
Parse(stream, arrived) ==
    LET whole == {i \in DOMAIN stream : End(stream, i) <= arrived}
        ends  == {i \in whole : Refused(stream, i) \/ Complete(Handshake(stream, i))}
    IN IF ends = {} \/ Refused(stream, Min(ends)) THEN None
       ELSE LET handshake == Handshake(stream, Min(ends))
                hello     == HelloOf(SubSeq(handshake, 3, 2 + handshake[2].value))
            IN IF hello = None THEN None
               ELSE [raw |-> SubSeq(stream, 1, Min(ends)), hello |-> hello]

\* The same of a capture's or a profile's bytes, all there.
ParseRaw(raw) == Parse(raw, End(raw, Len(raw)))

-----------------------------------------------------------------------------
(* What a hello says. *)

\* Both bytes equal, each ending in 0xa.
IsGREASE(v) == v % 16 = 10 /\ v \div 256 = v % 256
WithoutGREASE(values) == SelectSeq(values, LAMBDA v : ~IsGREASE(v))

ExtServerName == 0
ExtSupportedGroups == 10
ExtECPointFormats == 11
ExtSignatureAlgorithms == 13
ExtALPN == 16
ExtCompressCertificate == 27
ExtPreSharedKey == 41
ExtSupportedVersions == 43
ExtPSKKeyExchangeModes == 45
ExtKeyShare == 51
ExtApplicationSettings == 17513
ExtApplicationSettingsOld == 17613
ExtTrustAnchors == 51764

ExtensionTypes(hello) == [i \in DOMAIN hello.extensions |-> hello.extensions[i].type]
HasExtension(hello, type) == type \in ToSet(ExtensionTypes(hello))
\* Extension, and the list in it: of the first of its type, of none when there is none.
ListIn(hello, type) ==
    IF HasExtension(hello, type)
    THEN hello.extensions[SelectInSeq(hello.extensions, LAMBDA e : e.type = type)].data
    ELSE <<>>
\* Under either of its numbers.
ApplicationSettings(hello) ==
    ListIn(hello, IF HasExtension(hello, ExtApplicationSettings) THEN ExtApplicationSettings
                  ELSE ExtApplicationSettingsOld)

-----------------------------------------------------------------------------
(* JA4. *)

\* negotiableVersion: the highest of supported_versions, else the legacy one.
NegotiableVersion(hello) ==
    LET offered == WithoutGREASE(ListIn(hello, ExtSupportedVersions))
    IN IF offered = <<>> THEN hello.version ELSE Max(ToSet(offered))

CountTo99(values) == Min({Len(values), 99})
Sorted(values) == SortSeq(values, <)

HashedExtensions(hello) ==
    SelectSeq(WithoutGREASE(ExtensionTypes(hello)), LAMBDA t : t \notin {ExtServerName, ExtALPN})
\* Mutant: the extensions in the order they were sent
JA4ExtensionsAsSent(hello) == HashedExtensions(hello)
\* ja4Extensions: sorted, without those the prefix tells.
JA4Extensions(hello) == Sorted(HashedExtensions(hello))

\* JA4, with its sections as what they hash (JA4Raw).  The ALPN stands for its two letters.
JA4(hello) ==
    [version    |-> NegotiableVersion(hello),
     named      |-> ListIn(hello, ExtServerName) # <<>>,
     ciphers    |-> CountTo99(WithoutGREASE(hello.ciphers)),
     extensions |-> CountTo99(WithoutGREASE(ExtensionTypes(hello))),
     alpn       |-> IF ListIn(hello, ExtALPN) = <<>> THEN None ELSE Head(ListIn(hello, ExtALPN)),
     cipherList |-> Sorted(WithoutGREASE(hello.ciphers)),
     extList    |-> JA4Extensions(hello),
     sigAlgs    |-> WithoutGREASE(ListIn(hello, ExtSignatureAlgorithms))]
=============================================================================
