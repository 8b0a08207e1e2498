-------------------------- MODULE MCLibraryDownloads --------------------------
EXTENDS MCLibrary, LibraryDownloads
=============================================================================
