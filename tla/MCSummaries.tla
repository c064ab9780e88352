------------------------------- MODULE MCSummaries ------------------------------
(* Values for the constants of Summaries.                                        *)
EXTENDS Summaries

\* Embeddings with paths of their own, with the default paths, without
\* metadata, and with metadata of the wrong size.
Default == [tensorPath |-> <<>>, metaPath |-> <<>>, relativeTensor |-> <<>>,
            relativeMeta |-> <<>>, meta |-> "full"]
Own(tensor, meta) ==
  [Default EXCEPT !.tensorPath = <<"log", tensor>>, !.relativeTensor = <<tensor>>,
                  !.metaPath = <<"log", meta>>, !.relativeMeta = <<meta>>]

OwnPaths == [words |-> Own("w.tsv", "wm.tsv"), faces |-> Own("f.tsv", "fm.tsv"),
             bare |-> [Own("b.tsv", "bm.tsv") EXCEPT !.meta = "none", !.relativeMeta = <<>>],
             wrong |-> [Own("x.tsv", "xm.tsv") EXCEPT !.meta = "short"]]
MixedPaths == [first |-> Default, second |-> [Default EXCEPT !.meta = "none"],
               wrong |-> [Default EXCEPT !.meta = "short"], words |-> Own("w.tsv", "wm.tsv"),
               unnamed |-> [Own("u.tsv", "um.tsv") EXCEPT !.relativeTensor = <<>>]]


\* Edges that leave out values below, between and above.
MCValues == {-17, -4, -3, 0, 1, 2, 4, 6, 11, 17}
MCBinSets == {<<0>>, <<-4, 4>>, <<-3, 0, 5, 6>>, <<-4, 0, 8, 17>>}

\* Weights for all samples but the first two, or none at all.
MCWeights == {<<>>, <<2, 0>>}

\* Loggers of every kind, with intervals that are positive, zero and negative.
Make(type, epochCount, func) == [type |-> type, epochCount |-> epochCount, func |-> func]

MCLoggers == [a |-> Make("", 1, "none"), b |-> Make("", 2, "double")]
MCKinds ==
  [image |-> Make("image", 2, "matrix"), embedding |-> Make("embedding", 1, "matrix"),
   zero |-> Make("", 0, "none"), negative |-> Make("histogram", -1, "matrix"),
   untyped |-> Make("", 1, "matrix")]
=================================================================================
