----------------------------- MODULE MCDownload -----------------------------
\* The logger with a download, for TLC: the names are MCLogger's.
EXTENDS MCLogger, Download
=============================================================================
