----------------------------- MODULE MCFileCommit -----------------------------
(* Two leaves in two files, so that a commit can stop half-way.  Of the valid
   values, fine has more decimals than the renderer keeps, and hash is a text
   that is read back as a value validate rejects. *)
EXTENDS FileCommit, TLC

CONSTANTS tx_gain, pci, enb, rr, low, high, fine, hash, huge

MCFileOf == (tx_gain :> enb) @@ (pci :> rr)
MCRank == (enb :> 1) @@ (rr :> 2)
MCReadBack == (low :> low) @@ (high :> high) @@ (fine :> high) @@ (hash :> huge)
=============================================================================
