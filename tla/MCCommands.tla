------------------------------ MODULE MCCommands ------------------------------
(* A small instance of Commands: every call, with every class of device,   *)
(* counts below, at and above small limits, arrays too small and large     *)
(* enough, and buffers that fit everything, hardly anything, or are not    *)
(* connected.                                                              *)
EXTENDS Commands, TLC

MCLimit == [k \in LimitKeys |->
              CASE k \in {"DirectWordRead", "DirectWordWrite"} -> 12
                [] k \in {"DirectBitRead", "DirectBitWrite"} -> 5
                [] OTHER -> 2]

Setting(frame, mode, tx, rx, connected, blocked) ==
  [frame |-> frame, mode |-> mode, txCapacity |-> tx, rxCapacity |-> rx,
   connected |-> connected, blocked |-> blocked, blockAccess |-> mode = "iQR"]

Features == {"Direct", "Random", "Block", "Monitor", "LongDevicePath", "TypeName",
             "ExtModuleAccess", "ExtLinkDirect", "HgCpuBuffer"}

MCSettings ==
  {Setting("4E", "iQR", 80, 64, TRUE, {}),
   Setting("3E", "iQR", 33, 40, TRUE, {"HgCpuBuffer"}),
   Setting("3E", "Legacy", 80, 64, TRUE, {"ExtLinkDirect", "LongDevicePath"}),
   Setting("3E", "Legacy", 22, 15, TRUE, {}),
   Setting("4E", "iQR", 14, 40, FALSE, {}),
   Setting("4E", "iQR", 80, 64, TRUE, Features)}

Points == {0, 1, 3, 6, 7, 12, 13}
BitCounts == {0, 1, 4, 5, 6}

Ranged(calls, devices, points) ==
  UNION {{[call |-> c, device |-> d, points |-> n, capacity |-> k] : k \in {n, 3}} :
         c \in calls, d \in devices, n \in points}

Counted(calls, points) ==
  UNION {{[call |-> c, points |-> n, capacity |-> k] : k \in {n, 3}} : c \in calls, n \in points}

MCItems == {Item(0, 0), Item(0, 1), Item(1, 1)}

Name(length, refs) == [length |-> length, refs |-> refs]
Label(length, refs, unit, elements, bytes) ==
  [length |-> length, refs |-> refs, unit |-> unit, elements |-> elements, bytes |-> bytes]

MCLabels == {Label(1, {}, 0, 1, 2), Label(2, {1}, 1, 1, 1), Label(0, {}, 0, 1, 2),
             Label(1, {0}, 0, 1, 2), Label(1, {}, 2, 1, 1), Label(1, {}, 1, 0, 0)}
MCAbbrevs == {<<>>, <<Name(1, {})>>, <<Name(0, {})>>}

Labelled(calls) ==
  {[call |-> c, labels |-> p, abbrevs |-> a, capacity |-> k] :
     c \in calls, p \in UNION {[1 .. n -> MCLabels] : n \in 0 .. 2}, a \in MCAbbrevs, k \in {1, 2}}

Lists(devices, n) == UNION {[1 .. k -> devices] : k \in 0 .. n}
Pairs(first, devices) == {<<f, d>> : f \in first, d \in devices}

Listed(calls, devices, first) ==
  {[call |-> c, words |-> w, dwords |-> d] :
     c \in calls, w \in Lists(devices, 1) \cup Pairs(first, devices), d \in Lists(devices, 1)}

Held(requests) ==
  {r @@ [wordCapacity |-> k, dwordCapacity |-> Len(r.dwords)] : r \in requests, k \in {1, 2}}

MCBlocks == {[device |-> c, points |-> n] : c \in DeviceClasses, n \in {0, 1, 4}}
Blocks(n) == Lists(MCBlocks, n)

MCRequests ==
  Ranged({"readWords", "writeWords", "readDWords", "writeDWords", "readFloat32s",
          "writeFloat32s"}, DeviceClasses, Points)
  \cup Ranged({"readBits", "writeBits"}, DeviceClasses, BitCounts)
  \cup Ranged({"readWordsModuleBuf", "writeWordsModuleBuf"}, {"module", "hg", "badHg"}, {0, 1, 12, 13})
  \cup Ranged({"readBitsModuleBuf", "writeBitsModuleBuf"}, {"module", "hg", "badHg"}, BitCounts)
  \cup Ranged({"readWordsLinkDirect", "writeWordsLinkDirect"}, {"link", "notLink", "linkCounter"}, {0, 1, 12, 13})
  \cup Ranged({"readBitsLinkDirect", "writeBitsLinkDirect"}, {"link", "notLink", "linkCounter"}, BitCounts)
  \cup Counted(TimerCalls, 0 .. 4)
  \cup Counted({"readMemoryWords", "writeMemoryWords"}, {0, 1, 3, 4})
  \cup Counted({"readExtendUnitBytes", "writeExtendUnitBytes"}, {1, 2, 3, 16, 17})
  \cup Counted({"readExtendUnitWords", "writeExtendUnitWords"}, {0, 1, 8, 9})
  \cup Labelled({"readArrayLabels", "writeArrayLabels", "readRandomLabels", "writeRandomLabels"})
  \cup Held(Listed({"readRandom"}, DeviceClasses, {"plain"}))
  \cup Listed({"registerMonitorDevices"}, DeviceClasses, {"plain"})
  \cup Held(Listed({"readRandomExt"}, ExtClasses, {"module", "link"}))
  \cup Listed({"registerMonitorDevicesExt"}, ExtClasses, {"module", "link"})
  \cup {[call |-> "readBlock", wordBlocks |-> w, bitBlocks |-> d, wordCapacity |-> 4, dwordCapacity |-> 4] :
          w \in Blocks(1), d \in Blocks(1)}
  \cup {[call |-> "readBlock", wordBlocks |-> <<w, w>>, bitBlocks |-> d,
         wordCapacity |-> k, dwordCapacity |-> 4] :
          w \in {[device |-> "plain", points |-> n] : n \in {1, 5}},
          d \in {<<>>, <<[device |-> "plain", points |-> 3]>>}, k \in {2, 10}}
  \cup {[call |-> "runMonitorCycle", points |-> w, dpoints |-> d] : w \in 0 .. 3, d \in 0 .. 2}
  \cup {[call |-> c] : c \in {"readTypeName", "readCpuOperationState", "remoteStop", "remoteLatchClear", "remoteReset",
                              "clearError"}}
  \cup {[call |-> c, valid |-> v] : c \in {"remoteRun", "remotePause"}, v \in BOOLEAN}
  \cup {[call |-> "selfTestLoopback", points |-> n, capacity |-> k, valid |-> v] :
          n \in {0, 1, 3, 4}, k \in {1, 3}, v \in BOOLEAN}
  \cup {[call |-> c, points |-> n, valid |-> v, given |-> g] :
          c \in {"remotePasswordUnlock", "remotePasswordLock"}, n \in {3, 4, 6, 32, 33},
          v \in BOOLEAN, g \in BOOLEAN}
=============================================================================
