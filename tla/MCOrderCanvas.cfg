SPECIFICATION CanvasSpec
CONSTANTS
    Width = 4
    Height = 3
    Coords <- MCCoords
    Sources <- MCSources
    Clips <- MCClips
    NoClip = NoClip
    Tile <- MCTile
    TileWidth = 2
    Ink <- MCInk
    GlyphWidth = 3
    GlyphHeight = 2
    ByteBits = 2
    Seeds <- MCSeeds
    MaxDrawn = 1
    Overlaps = FALSE
INVARIANTS
    RendersAsMeant
    DirtyCovers
    LineIsStraight
