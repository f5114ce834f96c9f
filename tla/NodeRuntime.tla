---------------------------- MODULE NodeRuntime ----------------------------
(* The Node runtime of a workspace (platform-macos/src,                    *)
(* policy-owned-artifact-adapter.ts, for workspace-node-bootstrap.ts):     *)
(* several processes make sure it is there, and may die at every step.     *)
(* The archive is downloaded and compared before (see Installation), so    *)
(* here it is always the approved one.  A tree is published by renaming a  *)
(* private directory, and then gets the receipt that says what it holds.   *)
(*                                                                         *)
(* Others may change a tree at any time: "binary" is one with a changed    *)
(* node, npm or npx, "other" one with another changed file.                *)
CONSTANTS Procs,
          NoTree, NoReceipt

VARIABLES root,  \* versions/node/v<version>: who published it, what it holds, its receipt
          at,    \* where each process is in provisionNodeRuntime
          seen,  \* the content each process has hashed
          began  \* history variable: the contents since the call of each process began
node == <<root, at, seen, began>>

Contents == {"archive", "other", "binary"}
Tree(p, content) == [by |-> p, content |-> content, receipt |-> NoReceipt, temporaries |-> {}]
\* A receipt is torn while it is written; a legacy one has no hash of the tree.
\* Some processes have taken the inode of this one, to replace it.
Receipt(kind, content) == [kind |-> kind, of |-> content, known |-> {}]
Receipts == [kind : {"torn", "legacy", "full"}, of : Contents, known : SUBSET Procs]
\* Beside its receipt a tree may have the temporary files of migrations.
Trees == [by : Procs, content : Contents, receipt : {NoReceipt} \cup Receipts,
          temporaries : SUBSET Procs]

\* Nothing, or what a former version of the program left.
NodeInit ==
  /\ root \in {NoTree} \cup
       {[Tree(p, content) EXCEPT !.receipt = Receipt("legacy", "archive")] :
          p \in Procs, content \in Contents}
  /\ at = [p \in Procs |-> "idle"]
  /\ seen = [p \in Procs |-> "archive"]
  /\ began = [p \in Procs |-> {}]

Go(p, place) == at' = [at EXCEPT ![p] = place]
Fail(p) == Go(p, "idle")
Keep == UNCHANGED <<root, seen, began>>

\* Everybody whose call has begun sees a new content of the root.
Becomes(content) == began' = [p \in Procs |-> began[p] \cup {content}]

\* provisionNodeRuntime: the archive is there now, or the call fails.
Begin(p) ==
  /\ at[p] \in {"idle", "given"}
  /\ Go(p, "fetched")
  /\ began' = [began EXCEPT ![p] = IF root = NoTree THEN {} ELSE {root.content}]
  /\ UNCHANGED <<root, seen>>

\* readExistingRuntimeReceipt: what the receipt says against what is hashed.
Certifies(receipt, content) ==
  IF receipt.kind = "legacy" THEN (content = "binary") = (receipt.of = "binary")
  ELSE content = receipt.of
Readable(tree) == tree.receipt # NoReceipt /\ tree.receipt.kind # "torn"

\* hashRuntimeTree, hashRuntimePaths: every file but the receipt counts.
Hashed(tree) ==
  IF tree.content = "archive" /\ tree.temporaries # {} THEN "other" ELSE tree.content

Look(p) ==
  /\ at[p] = "fetched"
  /\ \/ root = NoTree /\ Go(p, "extract") /\ Keep
     \/ root # NoTree /\ Fail(p) /\ Keep
     \/ /\ root # NoTree /\ Readable(root) /\ Certifies(root.receipt, Hashed(root))
        /\ seen' = [seen EXCEPT ![p] = Hashed(root)]
        /\ Go(p, IF root.receipt.kind = "legacy" THEN "compare legacy" ELSE "compare")
        /\ UNCHANGED <<root, began>>

\* A bug: what the receipt certifies is not compared with the archive.
GenuineIfCertified(content) == content \in Contents

\* verifyRuntimeAgainstArchive: the archive is extracted once more, and what
\* was hashed is compared with that.
Genuine(content) == content = "archive"
Compare(p) ==
  /\ at[p] \in {"compare", "compare legacy"}
  /\ \/ Fail(p)
     \/ Genuine(seen[p]) /\ Go(p, IF at[p] = "compare" THEN "given" ELSE "migrate")
  /\ Keep

\* replaceRuntimeReceipt: the inode of the receipt that is there is taken; a
\* temporary file is written and synced, and left behind when that fails; the
\* inode is compared, and the temporary renamed over whatever is the receipt by
\* then.  A failing comparison or rename removes it, if that can be done; the
\* sync of the directory may still fail after the rename.
TakeInode(p) ==
  /\ at[p] = "migrate"
  /\ \/ /\ root # NoTree /\ root.receipt # NoReceipt /\ Go(p, "temporary")
        /\ root' = [root EXCEPT !.receipt.known = @ \cup {p}]
     \/ Fail(p) /\ UNCHANGED root
  /\ UNCHANGED <<seen, began>>
WriteTemporary(p) ==
  /\ at[p] = "temporary"
  /\ \/ /\ root # NoTree /\ (Go(p, "replace") \/ Fail(p))
        /\ root' = [root EXCEPT !.temporaries = @ \cup {p}]
     \/ Fail(p) /\ UNCHANGED root
  /\ UNCHANGED <<seen, began>>
Same(p) == root # NoTree /\ root.receipt # NoReceipt /\ p \in root.receipt.known
GivesUp(p) ==
  /\ Fail(p)
  /\ \/ root # NoTree /\ root' = [root EXCEPT !.temporaries = @ \ {p}]
     \/ UNCHANGED root
CompareInode(p) ==
  /\ at[p] = "replace"
  /\ (Same(p) /\ Go(p, "rename receipt") /\ UNCHANGED root) \/ GivesUp(p)
  /\ UNCHANGED <<seen, began>>
Migrate(p) ==
  /\ at[p] = "rename receipt"
  /\ \/ /\ root # NoTree /\ (Go(p, "compare") \/ Fail(p))
        /\ root' = [root EXCEPT !.receipt = Receipt("full", seen[p]), !.temporaries = @ \ {p}]
     \/ GivesUp(p)
  /\ UNCHANGED <<seen, began>>

\* extractNodeArchive: the entries go to a private directory, or one is refused.
Extract(p) == at[p] = "extract" /\ (Go(p, "staged") \/ Fail(p)) /\ Keep
Absent(p) == at[p] = "staged" /\ Go(p, IF root = NoTree THEN "rename" ELSE "idle") /\ Keep

\* A directory is not renamed over one that holds something.
Publish(p) ==
  /\ at[p] = "rename"
  /\ IF root = NoTree
     THEN root' = Tree(p, "archive") /\ Becomes("archive") /\ Go(p, "published")
     ELSE Fail(p) /\ UNCHANGED <<root, began>>
  /\ UNCHANGED seen

Withdraw(p) == root' = NoTree /\ Fail(p) /\ UNCHANGED <<seen, began>>

\* verifyRuntimePaths fails and what was published is removed, or the tree is
\* hashed; when that fails, the root stays, without a receipt.
VerifyPaths(p) == at[p] = "published" /\ (Withdraw(p) \/ (Go(p, "hash") /\ Keep))
Hash(p) ==
  /\ at[p] = "hash"
  /\ \/ Go(p, "write") /\ seen' = [seen EXCEPT ![p] = Hashed(root)]
     \/ Fail(p) /\ UNCHANGED seen
  /\ UNCHANGED <<root, began>>

\* writeRuntimeReceipt: created, written, synced; a failure removes the root.
\* Nobody migrates a receipt that was torn when the tree was looked at.
WriteReceipt(p) ==
  \/ /\ at[p] = "write" /\ root.receipt = NoReceipt /\ Go(p, "written")
     /\ root' = [root EXCEPT !.receipt = Receipt("torn", seen[p])]
     /\ UNCHANGED <<seen, began>>
  \/ /\ at[p] = "written" /\ Go(p, "synced")
     /\ root' = [root EXCEPT !.receipt = Receipt("full", seen[p])]
     /\ UNCHANGED <<seen, began>>
  \/ at[p] \in {"write", "written", "synced"} /\ Withdraw(p)
Settle(p) == at[p] = "synced" /\ Go(p, "given") /\ Keep

Die(p) == at[p] # "dead" /\ Go(p, "dead") /\ Keep

Alter == /\ root # NoTree /\ root.content = "archive"
         /\ \E content \in Contents \ {"archive"} :
              root' = [root EXCEPT !.content = content] /\ Becomes(content)
         /\ UNCHANGED <<at, seen>>

NodeNext ==
  \/ \E p \in Procs : \/ Begin(p) \/ Look(p) \/ Compare(p)
                      \/ TakeInode(p) \/ WriteTemporary(p) \/ CompareInode(p) \/ Migrate(p)
                      \/ Extract(p) \/ Absent(p) \/ Publish(p) \/ VerifyPaths(p) \/ Hash(p)
                      \/ WriteReceipt(p) \/ Settle(p) \/ Die(p)
  \/ Alter

NodeSpec == NodeInit /\ [][NodeNext]_node
---------------------------------------------------------------------------
\* Who is given a runtime is given one that has held what the archive holds at
\* some moment since the call began, whatever receipt an older version of the
\* program or a process that died has left (readExistingRuntimeReceipt,
\* verifyRuntimeAgainstArchive).
GivenIsGenuine == \A p \in Procs : at[p] = "given" => "archive" \in began[p]

\* A process that has published the root finds its own tree there until it has
\* written the receipt: no other process that lost the race removes it
\* (extractNodeArchive, publishedRoot).
PublishedIsKept ==
  \A p \in Procs : at[p] \in {"published", "hash", "write", "written", "synced"} =>
                     root # NoTree /\ root.by = p

\* A runtime that is given has been the approved one, and one that is published
\* stays until its receipt is written, whoever fails meanwhile.
RuntimesAreKept == GivenIsGenuine /\ PublishedIsKept
===========================================================================
