---------------------------- MODULE HostReadings ----------------------------
(***************************************************************************)
(* What app/hosts/local.py reads of the machine it runs on, as far as the  *)
(* desired state is made from it: the name, the CPUs, the interfaces and   *)
(* the default route.                                                      *)
(*                                                                         *)
(* A machine is what the mounted files and iproute2 say.  A CPU list is    *)
(* the sequence of its chunks: a range <<lo, hi>>, or <<>> for a chunk     *)
(* that is not one.  An address is a number, its text is left out.         *)
(***************************************************************************)
EXTENDS Naturals, FiniteSets, Sequences, SequencesExt

NoName == ""

\* Chunks that do not parse, the flags of isolcpus, are skipped; a range that
\* ends before it starts is empty.
Parsed(chunks) == {chunks[n] : n \in DOMAIN chunks} \ {<<>>}
ParseCpuList(chunks) == UNION {chunk[1]..chunk[2] : chunk \in Parsed(chunks)}

Hostname(machine) ==
  IF machine.etc_hostname # NoName THEN machine.etc_hostname ELSE machine.container

\* The count is all that leaves cpu(), and 0 stands for one not known.
Online(machine) == Cardinality(ParseCpuList(machine.online))

\* The kernel's own answer first, its command line when there is none.
IsolatedNow(machine) ==
  IF ParseCpuList(machine.isolated) # {} THEN ParseCpuList(machine.isolated)
  ELSE ParseCpuList(machine.cmdline)

Loopback == "lo"

\* The first row of /proc/net/route whose destination is 0; no row is row 0.
DefaultRow(machine) ==
  SelectInSeq(machine.routes, LAMBDA row : row.destination = 0)
HasDefaultRoute(machine) == DefaultRow(machine) # 0
DefaultRouteInterface(machine) == machine.routes[DefaultRow(machine)].link
DefaultGateway(machine) == machine.routes[DefaultRow(machine)].gateway

\* The addresses iproute2 lists for a link, none when it could not be run.
InterfaceAddresses(machine, link) ==
  IF machine.iproute /\ link \in DOMAIN machine.addresses
    THEN machine.addresses[link] ELSE <<>>

=============================================================================
