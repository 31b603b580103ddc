---------------------------- MODULE NativeChecks ----------------------------
(***************************************************************************)
(* The checks that are compiled in: check_terrapin on a peer that sends    *)
(* its bytes in pieces, the TLS checks (module TlsChecks), and the name    *)
(* lookup of dns::resolve.                                                 *)
(***************************************************************************)
EXTENDS SshMessages, Transports

Dns == INSTANCE DnsMessage
Tls == INSTANCE TlsChecks

-----------------------------------------------------------------------------
(* protocols/ssh/terrapin.cpp                                              *)

SshPrefix == <<83, 83, 72, 45>>             \* "SSH-"
ClientBanner == SshPrefix \o <<50, 13, 10>>
StrictKex == <<115>>                        \* kex-strict-s-v00@openssh.com
Chacha == <<99>>                            \* chacha20-poly1305@openssh.com
CbcMark == 45                               \* the part -cbc of a cipher's name
EtmMark == 64                               \* the part -etm@ of a MAC's name
AnyWith(mark, list) == \E i \in 1..Len(list) : mark \in ToSet(list[i])

NoVerdict == [finding |-> FALSE, kb |-> NoKexinit]

\* The decision on a parsed KEXINIT.
Verdict(kexinit) ==
    LET strict == StrictKex \in ToSet(kexinit[1])
        cbcEtm == AnyWith(CbcMark, kexinit[2]) /\ AnyWith(EtmMark, kexinit[3])
    IN  [finding |-> ~strict /\ (Chacha \in ToSet(kexinit[2]) \/ cbcEtm), kb |-> kexinit]

\* What follows the client's KEXINIT, as if one receive held the server's.
Bug_OneReceive(chunks) ==
    LET response == ReceiveUntil(chunks, 2, 5, <<>>)
        kexinit == ParseKexinit(StripPreKexinitLines(response.data))
    IN  IF Len(response.data) < 5 \/ kexinit = NoKexinit THEN NoVerdict ELSE Verdict(kexinit)

\* What follows the client's KEXINIT: five bytes, the lines stripped, then as many
\* bytes as the first four announce.
ReadServerKexinit(chunks) ==
    LET response == ReceiveUntil(chunks, 2, 5, <<>>)
        trimmed == StripPreKexinitLines(response.data)
        whole == ReceiveUntil(chunks, response.next, 4 + Uint32(trimmed, 0), trimmed)
        kexinit == ParseKexinit(whole.data)
    IN  IF Len(response.data) < 5 THEN NoVerdict
        ELSE IF kexinit = NoKexinit THEN NoVerdict ELSE Verdict(kexinit)

\* check_terrapin: connect, banner, banner, KEXINIT, KEXINIT.
CheckTerrapin(service, peer, ownLists) ==
    IF service # "ssh" THEN NoVerdict
    ELSE IF Connect(peer.connect) # "open" THEN NoVerdict
    ELSE IF ~IsPrefix(SshPrefix, Receive(peer.chunks, 1)) THEN NoVerdict
    ELSE IF ~Send(ClientBanner, peer.banner).ok THEN NoVerdict
    ELSE IF ~Send(FrameSshPacket(KexinitPayload(ownLists)), peer.packet).ok THEN NoVerdict
    ELSE ReadServerKexinit(peer.chunks)

-----------------------------------------------------------------------------
\* run_native_checks: by service, then by port.
RunNativeChecks(port, service, peer, ownLists, server, refusing) ==
    [ssh |-> CheckTerrapin(service, peer, ownLists), tls |-> Tls!RunTlsChecks(port, server, refusing)]

-----------------------------------------------------------------------------
\* dns::resolve: one datagram to 8.8.8.8, and the first one that comes back.
ResolveName(labels, call, chunks) ==
    IF ~SendDatagram(call) THEN Dns!None ELSE Dns!Resolve(Receive(chunks, 1))
=============================================================================
