------------------------------- MODULE Replay -------------------------------
(***************************************************************************)
(* Mounting a volume: the in-memory state that load_sb() and the log       *)
(* replay (replay.c, super.c) rebuild from the disk after a clean umount   *)
(* or a crash.                                                             *)
(*                                                                         *)
(* d is the disk, a function from blocks to what they hold, and super the  *)
(* superblock.  An error return or a failed assertion is left in err.      *)
(***************************************************************************)
EXTENDS Backend

Fail(m, why) == [m EXCEPT !.err = why]
Ok(m) == m.err = "ok"

(* vol_bread(): the buffer if there is one, else the block. *)
vol_bread(m, d, b) == IF b \in DOMAIN m.cache THEN Buffer(m, b) ELSE d[b]

(* Read a metadata block of the given type into the cache. *)
Load(m, d, b, type) ==
    CASE ~Ok(m) -> m
      [] b \notin Blocks \/ vol_bread(m, d, b).type # type -> Fail(m, "bad " \o type)
      [] OTHER -> IF b \in DOMAIN m.cache THEN m ELSE SetBuffer(m, b, d[b], "clean")

-----------------------------------------------------------------------------
(* replay_prepare(): follow the log chain, newest block first. *)

IsLog(d, b) == d[b].type = "log"

LogChain(d, super) ==
    FoldLeft(LAMBDA chain, k : <<CASE chain = <<>>          -> super.logchain
                                   [] IsLog(d, chain[1])    -> d[chain[1]].logchain
                                   [] OTHER                 -> chain[1]>> \o chain,
             <<>>, [k \in 1 .. super.logcount |-> k])

IsUnify(rec) == rec.op = "unify"

(* The records a log block contributes, led by its own address: all, those  *)
(* from the newest unify mark on, or none when that is in a later block.    *)
LiveRecords(d, chain, k) ==
    LET recs  == d[chain[k]].recs
        Marks(j) == {n \in DOMAIN d[chain[j]].recs : IsUnify(d[chain[j]].recs[n])}
        live  == CASE \E j \in k + 1 .. Len(chain) : Marks(j) # {} -> <<>>
                   [] Marks(k) # {} -> SubSeq(recs, Min(Marks(k)), Len(recs))
                   [] OTHER         -> recs
    IN  <<Rec1("logblock", chain[k])>> \o live

LiveLog(d, chain) == FlattenSeq([k \in DOMAIN chain |-> LiveRecords(d, chain, k)])

-----------------------------------------------------------------------------
(* replay_log_stage1(): rebuild the bnodes of this unify cycle. *)

(* mark_buffer_unify_atomic() of a buffer that may be dirty already. *)
BuildBnode(m, b, data) == SetBuffer(m, b, data, "unify")

(* The asserts on the buffer of a bnode that is changed in place. *)
IsDirty(m, b) == b \in DOMAIN m.cache /\ m.cache[b].state \in DirtyStates

Stage1(m, d, rec) ==
    CASE rec.op = "bnode_redirect" ->
           IF vol_bread(m, d, rec.old).type = "bnode"
           THEN BuildBnode(m, rec.new, vol_bread(m, d, rec.old))
           ELSE Fail(m, "bnode_sniff")
      [] rec.op = "bnode_root" -> BuildBnode(m, rec.old, Bnode(rec.new))
      [] rec.op = "bnode_update" ->
           IF IsDirty(m, rec.old) THEN [m EXCEPT !.cache[rec.old].data.child = rec.new]
           ELSE Fail(m, "mark_buffer_unify_non")
      [] rec.op = "freeblocks" -> [m EXCEPT !.freeblocks = rec.count]
      [] OTHER -> m

replay_log_stage1(m, d, log) ==
    FoldLeft(LAMBDA mm, rec : IF Ok(mm) THEN Stage1(mm, d, rec) ELSE mm, m, log)

(* tux3_init_fs() between the stages: load the internal inodes through the  *)
(* inode btree, and the bitmap.                                             *)
LoadLeaf(m, d, t, leaftype) == Load(m, d, LeafOf(m, t), leaftype)
LoadTree(m, d, t, leaftype) == LoadLeaf(Load(m, d, m.root[t], "bnode"), d, t, leaftype)

OpenInode(m, i) ==
    IF Ok(m) THEN [m EXCEPT !.root[i] = Leaf(m, "itree").inode[i]] ELSE m

ReadBitmap(m, d) ==
    LET bits == d[Leaf(m, "bitmap").block]
    IN  CASE ~Ok(m) -> m
          [] bits.type # "bits" -> Fail(m, "bad bits")
          [] OTHER -> [m EXCEPT !.bitmap = bits.set]

LoadBitmap(m, d) ==
    LET m1 == OpenInode(LoadTree(m, d, "itree", "ileaf"), "bitmap")
    IN  ReadBitmap(LoadTree(m1, d, "bitmap", "dleaf"), d)

(* replay_log_stage2(): apply the log to the bitmap and to deunify. *)
FreeBnodeBuffer(m, b) ==
    IF IsDirty(m, b) THEN blockput_free(m, b) ELSE Fail(m, "set_buffer_clean")

Stage2(m, rec) ==
    CASE rec.op = "logblock"       -> defer_unify(SetBit(m, rec.block), rec.block)
      [] rec.op = "balloc"         -> SetBit(m, rec.block)
      [] rec.op \in {"bfree", "bfree_relog", "leaf_free"} -> bfree(m, rec.block)
      [] rec.op = "bfree_on_unify" -> defer_unify(m, rec.block)
      [] rec.op = "leaf_redirect"  -> bfree(SetBit(m, rec.new), rec.old)
      [] rec.op = "bnode_redirect" -> defer_unify(SetBit(m, rec.new), rec.old)
      [] rec.op = "bnode_root"     -> SetBit(m, rec.old)
      [] rec.op = "bnode_free"     -> FreeBnodeBuffer(bfree(m, rec.block), rec.block)
      [] OTHER -> m

replay_log_stage2(m, log) ==
    FoldLeft(LAMBDA mm, rec : IF Ok(mm) THEN Stage2(mm, rec) ELSE mm, m, log)

(* tuxopen() and read of the regular file. *)
ReadFile(m, d) ==
    LET data == d[Leaf(m, "file").block]
    IN  CASE ~Ok(m) -> m
          [] Leaf(m, "file").block = 0 -> [m EXCEPT !.file = "empty"]
          [] OTHER -> IF data.type = "data" THEN [m EXCEPT !.file = data.value]
                      ELSE Fail(m, "bad data")

OpenFile(m, d) ==
    CASE ~Ok(m) -> m
      [] m.root["file"] = NoInode -> [m EXCEPT !.root["file"] = 0]
      [] m.root["file"] = 0 -> [m EXCEPT !.file = "empty"]
      [] OTHER -> ReadFile(LoadTree(m, d, "file", "dleaf"), d)

Replay(m, d, log) ==
    LET m1 == replay_log_stage2(LoadBitmap(replay_log_stage1(m, d, log), d), log)
    IN  OpenFile(OpenInode(m1, "file"), d)

(* replay_check_log() refuses a block without the magic of the log. *)
MountLog(d, super, chain) ==
    IF \A k \in DOMAIN chain : IsLog(d, chain[k])
    THEN Replay(setup_sb(super), d, LiveLog(d, chain))
    ELSE Fail(setup_sb(super), "bad log magic")

mount(d, super) == MountLog(d, super, LogChain(d, super))
=============================================================================
