----------------------------- MODULE PacketRing -----------------------------
(***************************************************************************)
(* The packet cache (decoder_demux.c): the read thread fills it from the   *)
(* file, the decode thread empties it into the decoders.  Each thread has  *)
(* an index of its own; both use the count of packets, under a lock, but   *)
(* they touch slots and indices outside it.                                *)
(*                                                                         *)
(* A packet is the number of the read that got it.  A slot without a packet*)
(* (NULL, or allocated and not yet filled) holds NoPacket.                 *)
(***************************************************************************)
EXTENDS Ring, Sequences

CONSTANTS CacheSize,   \* DEF_DECODER_MAX_CACHE_PACKETS
          MaxReads     \* bound: how many packets are read

ASSUME CacheAssumption == CacheSize \in Nat \ {0, 1} /\ MaxReads \in Nat

VARIABLES packets,     \* dd_cache_packet
          readyIndex,  \* dd_cache_packet_ready_index, where to fill
          parseIndex,  \* dd_cache_packet_current_index, where to parse
          available,   \* dd_available_cache_packet
          reader,      \* where read_packet is
          parser,      \* where parse_packet is
          reads,       \* packets read so far
          parsed       \* the packet handed to a decoder last

packetVars == <<packets, readyIndex, parseIndex, available, reader, parser, reads, parsed>>

NoPacket == 0
Slots == 0..CacheSize - 1

PacketInit ==
  /\ packets = [s \in Slots |-> NoPacket]
  /\ readyIndex = 0 /\ parseIndex = 0 /\ available = 0
  /\ reader = "idle" /\ parser = "idle"
  /\ reads = 0 /\ parsed = NoPacket

-----------------------------------------------------------------------------
(* The read thread: DecoderDemux_read_packet.                              *)

\* Mutant of ReadStart: the cache is filled to the last slot.
ReadStartLate == /\ reader = "idle" /\ available < CacheSize
                 /\ reader' = "filling"
                 /\ UNCHANGED <<packets, readyIndex, parseIndex, available, parser, reads, parsed>>

\* With one slot left the call returns DEF_ERR_TRY_AGAIN instead.
ReadStart == /\ reader = "idle" /\ available + 1 < CacheSize
             /\ reader' = "filling"
             /\ UNCHANGED <<packets, readyIndex, parseIndex, available, parser, reads, parsed>>

ReadFrame == /\ reader = "filling" /\ reads < MaxReads
             /\ packets' = [packets EXCEPT ![readyIndex] = reads + 1]
             /\ reads' = reads + 1
             /\ readyIndex' = After(readyIndex, CacheSize)
             /\ reader' = "counting"
             /\ UNCHANGED <<parseIndex, available, parser, parsed>>

\* End of file, the time limit, an abort or no memory: the slot is freed.
ReadFails == /\ reader = "filling"
             /\ packets' = [packets EXCEPT ![readyIndex] = NoPacket]
             /\ reader' = "idle"
             /\ UNCHANGED <<readyIndex, parseIndex, available, parser, reads, parsed>>

ReadCount == /\ reader = "counting"
             /\ available' = available + 1
             /\ reader' = "idle"
             /\ UNCHANGED <<packets, readyIndex, parseIndex, parser, reads, parsed>>

-----------------------------------------------------------------------------
(* The decode thread: DecoderDemux_parse_packet.                           *)

\* Mutant of ParseStart: the cache is not asked.
ParseStartBlind == /\ parser = "idle"
                   /\ parser' = "routing"
                   /\ UNCHANGED <<packets, readyIndex, parseIndex, available, reader, reads, parsed>>

ParseStart == /\ parser = "idle" /\ available > 0
              /\ parser' = "routing"
              /\ UNCHANGED <<packets, readyIndex, parseIndex, available, reader, reads, parsed>>

\* The decoder takes a reference; the slot is freed and the index moves on.
ParseRoute == /\ parser = "routing"
              /\ parsed' = packets[parseIndex]
              /\ packets' = [packets EXCEPT ![parseIndex] = NoPacket]
              /\ parseIndex' = After(parseIndex, CacheSize)
              /\ parser' = "counting"
              /\ UNCHANGED <<readyIndex, available, reader, reads>>

\* No memory for the reference: the packet stays where it is.
RouteFails == /\ parser = "routing"
              /\ parser' = "idle"
              /\ UNCHANGED <<packets, readyIndex, parseIndex, available, reader, reads, parsed>>

ParseCount == /\ parser = "counting"
              /\ available' = available - 1
              /\ parser' = "idle"
              /\ UNCHANGED <<packets, readyIndex, parseIndex, reader, reads, parsed>>

EmptyCache ==
  /\ packets' = [s \in Slots |-> NoPacket]
  /\ readyIndex' = 0 /\ parseIndex' = 0 /\ available' = 0
  /\ UNCHANGED <<reader, parser, reads, parsed>>

\* DecoderDemux_clear_cache_packet, for a seek: no lock is taken, the seek must
\* see to it that neither thread is inside (DataPath shows that it does).
ClearCache == reader = "idle" /\ parser = "idle" /\ EmptyCache

PacketNext == \/ ReadStart \/ ReadFrame \/ ReadFails \/ ReadCount
              \/ ParseStart \/ ParseRoute \/ RouteFails \/ ParseCount
              \/ ClearCache

PacketSpec == PacketInit /\ [][PacketNext]_packetVars

-----------------------------------------------------------------------------
(* Properties.                                                             *)

PacketTypeOK ==
  /\ packets \in [Slots -> Nat]
  /\ readyIndex \in Slots /\ parseIndex \in Slots
  /\ available \in Nat
  /\ reader \in {"idle", "filling", "counting"}
  /\ parser \in {"idle", "routing", "counting"}
  /\ reads \in Nat /\ parsed \in Nat

\* Packets in the ring: those counted, one filled and not yet counted, and
\* not one that was freed and is still counted.
Held == available + (IF reader = "counting" THEN 1 ELSE 0)
                  - (IF parser = "counting" THEN 1 ELSE 0)

\* The decode thread parses the oldest packet in the cache, never an empty
\* slot; and the slot the read thread fills is none that is in use.
\* decoder_demux.c:252 and 332 touch the slots outside the lock.
SlotsApart ==
  /\ parser = "routing" => packets[parseIndex] = reads - Held + 1
  /\ reader = "filling" => \A k \in 0..Held - 1 :
                              readyIndex /= Place(parseIndex, k, CacheSize)

\* The cache is a channel: packets reach the decoders in the order of the
\* file, each once, and a seek drops all or none.
cacheInside == [k \in 1..Held |-> packets[Place(parseIndex, k - 1, CacheSize)]]
PacketChannel == INSTANCE Channel
                   WITH Items <- 1..MaxReads, Capacity <- CacheSize - 1,
                        Nothing <- NoPacket, inside <- cacheInside, taken <- parsed
PacketsInOrder == PacketChannel!Spec
=============================================================================
