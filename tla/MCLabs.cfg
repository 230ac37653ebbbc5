\* One command at a time, every packet and every change of the hooks.
CONSTANTS
    Paths <- MCPaths
    Packets <- MCPackets
SPECIFICATION LabsSpec
INVARIANTS
    HooksExplain
    AttachmentTold
