---------------------------- MODULE MCTrustedFile ----------------------------
(* A small instance of TrustedFile for TLC: the configured root is a link    *)
(* switched between two releases; the first has two skill directories.       *)
EXTENDS TrustedFile, TLC

CONSTANTS old, new, demo, shared, demo2, out

MCTree == old :> {demo, shared} @@ new :> {demo2}

It(kind, dir, link) == [kind |-> kind, dir |-> dir, link |-> link]

MCEntries ==
  old :> { Missing, It("directory", demo, "none"), It("directory", shared, "relative"),
           It("directory", demo, "absolute"), It("directory", out, "relative") }
  @@ new :> {Missing, It("directory", demo2, "none"), It("file", demo2, "none")}

MCDocuments ==
  demo :> { Missing, It("file", demo, "none"), It("sealed", demo, "none"),
            It("file", shared, "relative"), It("file", out, "relative"),
            It("file", demo, "absolute") }
  @@ shared :> {It("file", shared, "none")}
  @@ demo2 :> {It("directory", demo2, "none"), It("file", demo2, "none")}
  @@ out :> {It("file", out, "none")}
=============================================================================
