------------------------------ MODULE MCExport ------------------------------
(* Instances of Export for TLC.                                              *)
EXTENDS Export, TLC

\* Every selection; the media alone, or the documents.
AnyChoice == (SUBSET Exports) \ {{}}
MediaOrDocs == {{Media}, Docs}

\* Pages are interchangeable in every action and in every invariant.
PageSymmetry == Permutations(Pages)

=============================================================================
