----------------------------- MODULE MC_MeiVsc -----------------------------
(* Model-checking instance of MeiVsc: the files give six images of 513     *)
(* bytes (two VSC_FW_PKG_SIZE chunks, the last one short), or the same     *)
(* with the first or the last image empty, which load_fw_frag rejects.     *)
EXTENDS MeiVsc

Full == [i \in FragIdx |-> 513]

MC_FragTables == {Full, [Full EXCEPT ![1] = 0], [Full EXCEPT ![6] = 0]}
=============================================================================
