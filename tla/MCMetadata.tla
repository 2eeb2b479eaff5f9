----------------------------- MODULE MCMetadata -----------------------------
EXTENDS Metadata

ServiceFirst == <<"metadataService", "configDrive">>
=============================================================================
